---- MODULE Spec2Model ----
(***************************************************************************)
(* Model of the titanpl-ex action server: the request dispatcher           *)
(* (server/src/main.rs), the worker pool (server/src/runtime.rs) and the   *)
(* drift suspend/replay protocol (server/src/extensions/builtin.rs,        *)
(* server/src/extensions/mod.rs).                                          *)
(*                                                                         *)
(* Strings that the code inspects character by character (methods, paths,  *)
(* route keys, patterns) are sequences of one-character strings.           *)
(***************************************************************************)
EXTENDS Integers, Sequences, FiniteSets, Bags, TLC

\* ------------------------------------------------------------------ bounds
\* HTTP requests that arrive in one run.
MaxRequests == 3
\* Worker threads (routes.json __config.threads).
NumWorkers == 2
\* Drifts performed by the longest action script of the model.
MaxDrifts == 2
\* Capacity of each worker queue (runtime.rs:79 uses 256).
channel_capacity == 1
\* Capacity of the global async executor channel (runtime.rs:57 uses 2048).
async_capacity == 1
\* Longest array a script passes to a batch drift.
MaxBatch == 3
\* Longest request path, in characters, given to the route matcher.
MaxPath == 5
\* Longest list of dynamic routes given to the route matcher.
MaxRoutes == 2
\* Most t.response.* calls in one action file given to the analyzer.
MaxCalls == 2

Workers == 0 .. (NumWorkers - 1)
HttpIds == 1 .. MaxRequests

\* ------------------------------------------------------------- hash maps
\* std::collections::HashMap as a function with a finite domain.
EmptyMap == << >>

MapInsert(m, k, v) == [x \in (DOMAIN m) \cup {k} |-> IF x = k THEN v ELSE m[x]]

MapRemove(m, k) == [x \in (DOMAIN m) \ {k} |-> m[x]]

MapHas(m, k) == k \in DOMAIN m

\* ---------------------------------------------------------------- values
Null == [null |-> TRUE]
Undefined == [undefined |-> TRUE]

\* Option values.
None == [some |-> FALSE]
Some(v) == [some |-> TRUE, val |-> v]

\* The suspend sentinel thrown by native_drift_call.
SUSPEND == "__SUSPEND__"

\* msg.contains("SUSPEND") over the exception messages of the model.
contains_SUSPEND(msg) == msg \in {"__SUSPEND__", "Uncaught Error: SUSPENDED by user"}

\* ------------------------------------------------------------- strings
GET == <<"G", "E", "T">>
POST == <<"P", "O", "S", "T">>

\* Parameter name "id" and the values the model's paths carry.
ID == <<"i", "d">>

\* ------------------------------------------------------- action scripts
\* The action files and the script-side core (titan_core.js) are scripts run
\* by the isolate.  A script is deterministic: its next step is a function of
\* the request inputs and of the values its drift calls have returned so far.
\*   home     finishes at once with t.response.json({message: ...})
\*   guarded  throws for params.id = "0", else finishes like a static action
\*   one      one drift, then finishes with the value it got
\*   chain    MaxDrifts sequential drifts, then finishes with the values
\*   boom     one drift, then throws an ordinary exception
\*   banned   throws new Error("SUSPENDED by user") at once
\*   twice    one drift, then calls _finish_request two times
\*   late     calls _finish_request, then throws an ordinary exception
\* The route table also names an action, ghost, whose file did not compile:
\* no worker has it in its actions map.
LoadedActions == {"home", "guarded", "one", "chain", "boom", "banned", "twice", "late"}

ScriptDrifts(action) ==
    CASE action = "one" -> 1
      [] action = "chain" -> MaxDrifts
      [] action = "boom" -> 1
      [] action = "twice" -> 1
      [] OTHER -> 0

\* The object t.response.json(v) evaluates to.
response_json(body) ==
    [_isResponse |-> TRUE, status |-> 200, body |-> body,
     headers |-> [content_type |-> "application/json"]]

\* A body: literal text followed by the drift values appended to it.
Body(text, vals) == [text |-> text, vals |-> vals]

HelloBody == Body("{message:Hello, World!}", << >>)
OkBody == Body("{ok:true}", << >>)

\* The async op a script issues at its pos-th drift call.  origin names the
\* request whose inputs the script runs on.
ScriptOp(req, pos) == [type |-> "fetch", origin |-> req.origin, pos |-> pos]

ScriptStep(action, req, vals) ==
    IF Len(vals) < ScriptDrifts(action)
    THEN [kind |-> "drift", op |-> ScriptOp(req, Len(vals) + 1)]
    ELSE CASE action = "home" ->
                [kind |-> "finish", result |-> response_json(HelloBody)]
           [] action = "guarded" ->
                IF MapHas(req.params, ID) /\ req.params[ID] = <<"0">>
                THEN [kind |-> "throw", msg |-> "Uncaught Error: bad id"]
                ELSE [kind |-> "finish", result |-> response_json(OkBody)]
           [] action = "boom" ->
                [kind |-> "throw", msg |-> "Uncaught Error: boom"]
           [] action = "banned" ->
                [kind |-> "throw", msg |-> "Uncaught Error: SUSPENDED by user"]
           [] action = "twice" ->
                [kind |-> "finish_twice", result |-> response_json(Body("", vals)),
                 second |-> response_json(OkBody)]
           [] action = "late" ->
                [kind |-> "finish_throw", result |-> response_json(OkBody),
                 msg |-> "Uncaught Error: late"]
           [] OTHER ->
                [kind |-> "finish", result |-> response_json(Body("", vals))]

\* ------------------------------------------------------ async executor
\* TitanAsyncOp::Batch
Batch(ops) == [batch |-> ops]

\* A JSON array.
Array(items) == [array |-> items]

\* run_async_operation: the result of an op.  The op is kept in the data so
\* that a value can be traced to the op that produced it.  FsRead of a path
\* that is not under the project root is denied; a batch runs its ops in
\* order and collects their results.
RECURSIVE run_async_operation(_)
run_async_operation(op) ==
    IF "batch" \in DOMAIN op
    THEN Array([i \in 1 .. Len(op.batch) |-> run_async_operation(op.batch[i])])
    ELSE IF op.type = "fs_read" /\ ~op.safe
    THEN [error |-> "Access denied"]
    ELSE [data |-> op]

\* ------------------------------------------------------ worker runtime
\* A worker whose runtime holds the sender of the next worker's queue.
init_runtime_worker_other_tx(id, worker_tx) ==
    [id |-> id,
     actions |-> LoadedActions,
     worker_tx |-> (worker_tx + 1) % NumWorkers,
     pending_requests |-> EmptyMap,
     drift_counter |-> 0,
     request_counter |-> 0,
     request_timings |-> EmptyMap,
     drift_to_request |-> EmptyMap,
     completed_drifts |-> EmptyMap,
     active_requests |-> EmptyMap,
     request_start_counters |-> EmptyMap]

\* TitanRuntime after init_runtime_worker(id, .., worker_tx, ..).
init_runtime_worker(id, worker_tx) ==
    [id |-> id,
     actions |-> LoadedActions,
     worker_tx |-> worker_tx,
     pending_requests |-> EmptyMap,
     drift_counter |-> 0,
     request_counter |-> 0,
     request_timings |-> EmptyMap,
     drift_to_request |-> EmptyMap,
     completed_drifts |-> EmptyMap,
     active_requests |-> EmptyMap,
     request_start_counters |-> EmptyMap]

\* What an execution on a worker acts on: the worker's runtime, the global
\* async channel and the oneshot response channels; plus the isolate's
\* __titan_req.__titan_request_id, the pending exception, the value a native
\* call returned, and a log of the execution (ids allocated, values served
\* from the replay cache, AsyncOpRequests sent, rejected sends, WorkerResults
\* sent on a response_tx, and for every rejected send the drift id with what
\* the call returned and threw).
NoLog == [ids |-> << >>, cached |-> << >>, sent |-> 0, rejected |-> 0, results |-> 0,
          refused |-> << >>]

World(r, chan, shots) ==
    [rt |-> r, chan |-> chan, oneshot |-> shots,
     titan_req_id |-> 0, thrown |-> "none", ret |-> Null, log |-> NoLog]

\* The value a replayed drift call hands to the script:
\* serde_json::to_string(res) parsed back by v8::json::parse.
replay_value(res) == res

\* parse_async_op: the op a script value denotes, if it is an object whose
\* type is one of the known op types.
parse_async_op(op_val) ==
    IF "type" \in DOMAIN op_val /\ op_val.type \in {"fetch", "db_query", "fs_read"}
    THEN Some(op_val)
    ELSE None

\* The ops of the elements of an array that parse, in order.
RECURSIVE parse_ops(_)
parse_ops(arr) ==
    IF arr = << >>
    THEN << >>
    ELSE LET op == parse_async_op(Head(arr))
         IN  (IF op.some THEN <<op.val>> ELSE << >>) \o parse_ops(Tail(arr))

DRIFT_ARG_ERROR == "drift() requires an async operation or array of operations"

native_drift_call(x, arg0) ==
    IF "array" \notin DOMAIN arg0 /\ ~parse_async_op(arg0).some
    THEN [x EXCEPT !.thrown = DRIFT_ARG_ERROR]
    ELSE
    LET op == IF "array" \in DOMAIN arg0
              THEN Batch(parse_ops(arg0.array))
              ELSE parse_async_op(arg0).val
        req_id == x.titan_req_id
        drift_id == x.rt.drift_counter + 1
        rt1 == [x.rt EXCEPT
                  !.drift_counter = drift_id,
                  !.drift_to_request =
                      IF req_id # 0 THEN MapInsert(@, drift_id, req_id) ELSE @]
        log1 == [x.log EXCEPT !.ids = Append(@, drift_id)]
    IN  IF MapHas(rt1.completed_drifts, drift_id)
        THEN [x EXCEPT
                !.rt = rt1,
                !.ret = replay_value(rt1.completed_drifts[drift_id]),
                !.log = [log1 EXCEPT
                           !.cached = Append(@,
                               [op |-> op, val |-> rt1.completed_drifts[drift_id],
                                id |-> drift_id,
                                ret |-> replay_value(rt1.completed_drifts[drift_id])])]]
        ELSE IF Len(x.chan) >= async_capacity
        THEN [x EXCEPT
                !.rt = rt1,
                !.ret = Null,
                !.log = [log1 EXCEPT
                           !.rejected = @ + 1,
                           !.refused = Append(@, [id |-> drift_id, ret |-> Null,
                                                  thrown |-> x.thrown])]]
        ELSE [x EXCEPT
                !.rt = rt1,
                !.chan = Append(@, [op |-> op, drift_id |-> drift_id,
                                    request_id |-> req_id,
                                    worker_tx |-> rt1.worker_tx]),
                !.thrown = SUSPEND,
                !.log = [log1 EXCEPT !.sent = @ + 1]]

\* A oneshot channel whose Receiver was dropped.
Closed == [some |-> FALSE, closed |-> TRUE]

\* tx.send(v) on the oneshot channel tx: the value is placed for the receiver;
\* with the Receiver dropped the send returns Err and the value is dropped.
oneshot_send(shots, tx, v) ==
    IF shots[tx] = Closed THEN shots ELSE [shots EXCEPT ![tx] = Some(v)]

\* obj.get(key): the value of a property, undefined for a missing one.
js_get(obj, key) == IF key \in DOMAIN obj THEN obj[key] ELSE Undefined

\* A script value that is a string: the model writes strings as Body records.
is_string(v) == "text" \in DOMAIN v

\* v8_to_string(value): ToString of a value that is not a string.
v8_to_string(v) ==
    IF is_string(v) THEN v
    ELSE IF "bool" \in DOMAIN v
    THEN Body(IF v.bool THEN "true" ELSE "false", << >>)
    ELSE Body("[object Object]", << >>)

\* number_value(status) as u64: ToNumber of undefined is NaN; the cast of a
\* NaN or of a negative number gives 0.  (The statuses of the model are far
\* below u64::MAX, where the cast saturates.)
status_as_u64(obj) ==
    IF "status" \notin DOMAIN obj THEN 0
    ELSE IF obj.status < 0 THEN 0
    ELSE obj.status

\* A _finish_request that serialises every result as a whole.
finish_json_whole(result) == result

\* The JSON native_finish_request builds from the script's result: the
\* field-by-field extraction for an _isResponse object, v8_to_json otherwise.
\* (Header values are strings in the model; their to_string is themselves.)
finish_json(result) ==
    IF "_isResponse" \in DOMAIN result /\ result._isResponse = TRUE
    THEN LET b == js_get(result, "body")
             h == js_get(result, "headers")
             keys == {"_isResponse", "status"}
                        \cup (IF b \notin {Null, Undefined} THEN {"body"} ELSE {})
                        \cup (IF h \notin {Null, Undefined} THEN {"headers"} ELSE {})
         IN  [k \in keys |->
                CASE k = "_isResponse" -> TRUE
                  [] k = "status" -> status_as_u64(result)
                  [] k = "body" -> IF is_string(b) THEN b ELSE v8_to_string(b)
                  [] OTHER -> h]
    ELSE result

\* A _finish_request that keeps the request's entries when the send fails.
native_finish_request_keep_unsent(x, request_id, result) ==
    IF MapHas(x.rt.pending_requests, request_id)
       /\ x.oneshot[x.rt.pending_requests[request_id]] # Closed
    THEN LET tx == x.rt.pending_requests[request_id]
             timings == IF MapHas(x.rt.request_timings, request_id)
                        THEN x.rt.request_timings[request_id]
                        ELSE << >>
         IN  [x EXCEPT
                !.rt = [@ EXCEPT
                          !.pending_requests = MapRemove(@, request_id),
                          !.request_timings = MapRemove(@, request_id)],
                !.oneshot = oneshot_send(@, tx, [json |-> finish_json(result),
                                                 timings |-> timings]),
                !.log = [@ EXCEPT !.results = @ + 1]]
    ELSE x

\* A _finish_request that sends on the request's sender and leaves it in
\* pending_requests.
native_finish_request_keep_sender(x, request_id, result) ==
    IF MapHas(x.rt.pending_requests, request_id)
    THEN LET tx == x.rt.pending_requests[request_id]
             timings == IF MapHas(x.rt.request_timings, request_id)
                        THEN x.rt.request_timings[request_id]
                        ELSE << >>
         IN  [x EXCEPT
                !.rt = [@ EXCEPT !.request_timings = MapRemove(@, request_id)],
                !.oneshot = oneshot_send(@, tx, [json |-> finish_json(result),
                                                 timings |-> timings]),
                !.log = [@ EXCEPT !.results = @ + 1]]
    ELSE x

native_finish_request(x, request_id, result) ==
    IF MapHas(x.rt.pending_requests, request_id)
    THEN LET tx == x.rt.pending_requests[request_id]
             timings == IF MapHas(x.rt.request_timings, request_id)
                        THEN x.rt.request_timings[request_id]
                        ELSE << >>
         IN  [x EXCEPT
                !.rt = [@ EXCEPT
                          !.pending_requests = MapRemove(@, request_id),
                          !.request_timings = MapRemove(@, request_id)],
                !.oneshot = oneshot_send(@, tx, [json |-> finish_json(result),
                                                 timings |-> timings]),
                !.log = [@ EXCEPT !.results = @ + 1]]
    ELSE x

\* The isolate running the action function until it returns or throws.
RECURSIVE run_action(_, _, _, _)
run_action(x, action, req, vals) ==
    LET step == ScriptStep(action, req, vals)
    IN  CASE step.kind = "drift" ->
               LET y == native_drift_call(x, step.op)
               IN  IF y.thrown # "none"
                   THEN y
                   ELSE run_action(y, action, req, Append(vals, y.ret))
          [] step.kind = "finish" ->
               native_finish_request(x, x.titan_req_id, step.result)
          [] step.kind = "finish_twice" ->
               native_finish_request(
                   native_finish_request(x, x.titan_req_id, step.result),
                   x.titan_req_id, step.second)
          [] step.kind = "finish_throw" ->
               [native_finish_request(x, x.titan_req_id, step.result)
                   EXCEPT !.thrown = step.msg]
          [] OTHER ->
               [x EXCEPT !.thrown = step.msg]

\* Deliver {error: msg} on the request's response_tx, if it is still pending.
send_error(x, request_id, msg) ==
    IF MapHas(x.rt.pending_requests, request_id)
    THEN LET tx == x.rt.pending_requests[request_id]
         IN  [x EXCEPT
                !.rt = [@ EXCEPT !.pending_requests = MapRemove(@, request_id)],
                !.oneshot = oneshot_send(@, tx, [json |-> [error |-> msg],
                                                 timings |-> << >>]),
                !.log = [@ EXCEPT !.results = @ + 1]]
    ELSE x

\* An execute_action_optimized that does nothing for an action it has not.
execute_action_optimized_skip_missing(x, request_id, action_name, req) ==
    LET x0 == [x EXCEPT !.titan_req_id = request_id, !.thrown = "none"]
    IN  IF action_name \in x0.rt.actions
        THEN LET y == run_action(x0, action_name, req, << >>)
             IN  IF y.thrown = "none" \/ contains_SUSPEND(y.thrown)
                 THEN y
                 ELSE send_error(y, request_id, y.thrown)
        ELSE x0

execute_action_optimized(x, request_id, action_name, req) ==
    LET x0 == [x EXCEPT !.titan_req_id = request_id, !.thrown = "none"]
    IN  IF action_name \in x0.rt.actions
        THEN LET y == run_action(x0, action_name, req, << >>)
             IN  IF y.thrown = "none" \/ contains_SUSPEND(y.thrown)
                 THEN y
                 ELSE send_error(y, request_id, y.thrown)
        ELSE send_error(x0, request_id, "Action '" \o action_name \o "' not found")

\* The replayable inputs of a task (RequestData), with its origin tag.
RequestData(task) ==
    [action_name |-> task.action_name, body |-> task.body,
     method |-> task.method, path |-> task.path, headers |-> task.headers,
     params |-> task.params, query |-> task.query, origin |-> task.origin]

\* An end of handle_new_request that stores the request data in every case.
deferred_clone_always(r, request_id, task) ==
    [r EXCEPT !.active_requests = MapInsert(@, request_id, RequestData(task))]

\* The end of handle_new_request: a request that completed synchronously
\* leaves no data; one that is still pending is stored for replay.
deferred_clone(r, request_id, task) ==
    IF ~MapHas(r.pending_requests, request_id)
    THEN [r EXCEPT !.request_start_counters = MapRemove(@, request_id)]
    ELSE [r EXCEPT !.active_requests = MapInsert(@, request_id, RequestData(task))]

handle_new_request(x, task) ==
    LET request_id == x.rt.request_counter + 1
        drift_count == x.rt.drift_counter
        x1 == [x EXCEPT !.rt = [@ EXCEPT
                 !.request_counter = request_id,
                 !.pending_requests = MapInsert(@, request_id, task.response_tx),
                 !.request_start_counters = MapInsert(@, request_id, drift_count)]]
        y == execute_action_optimized(x1, request_id, task.action_name,
                                      RequestData(task))
    IN  [y EXCEPT !.rt = deferred_clone(@, request_id, task)]

\* The request a Resume is attributed to: drift_to_request[drift_id], or 0.
resume_request(r, drift_id) ==
    IF MapHas(r.drift_to_request, drift_id) THEN r.drift_to_request[drift_id] ELSE 0

\* A replay that continues from the worker's current drift counter.
resume_counter_noreset(r, req_id) ==
    r.drift_counter

\* The counter value handle_resume restarts the replay from.
resume_counter(r, req_id) ==
    IF MapHas(r.request_start_counters, req_id)
    THEN r.request_start_counters[req_id]
    ELSE 0

\* An end of handle_resume that keeps the request data in every case.
resume_cleanup_keep(r, req_id) ==
    r

\* The end of handle_resume: a request that is no longer pending is dropped
\* from active_requests and request_start_counters.
resume_cleanup(r, req_id) ==
    IF req_id # 0 /\ ~MapHas(r.pending_requests, req_id)
    THEN [r EXCEPT
            !.active_requests = MapRemove(@, req_id),
            !.request_start_counters = MapRemove(@, req_id)]
    ELSE r

\* The label handle_resume gives the timing entry of a drift result.
timing_type(result) == IF "error" \in DOMAIN result THEN "drift_error" ELSE "drift"

\* A handle_resume that stores the result only after the replay has run.
handle_resume_store_after(x, drift_id, result) ==
    LET req_id == resume_request(x.rt, drift_id)
        old == IF MapHas(x.rt.request_timings, req_id)
               THEN x.rt.request_timings[req_id] ELSE << >>
        x1 == [x EXCEPT !.rt = [@ EXCEPT
                 !.request_timings = MapInsert(@, req_id, Append(old, timing_type(result.result)))]]
        y == IF MapHas(x1.rt.active_requests, req_id)
             THEN LET req_data == x1.rt.active_requests[req_id]
                      x2 == [x1 EXCEPT !.rt = [@ EXCEPT
                               !.drift_counter = resume_counter(x1.rt, req_id)]]
                  IN  execute_action_optimized(x2, req_id, req_data.action_name,
                                               req_data)
             ELSE x1
    IN  [y EXCEPT !.rt = resume_cleanup(
                     [@ EXCEPT !.completed_drifts = MapInsert(@, drift_id, result.result)],
                     req_id)]

handle_resume(x, drift_id, result) ==
    LET req_id == resume_request(x.rt, drift_id)
        old == IF MapHas(x.rt.request_timings, req_id)
               THEN x.rt.request_timings[req_id] ELSE << >>
        x1 == [x EXCEPT !.rt = [@ EXCEPT
                 !.request_timings = MapInsert(@, req_id, Append(old, timing_type(result.result))),
                 !.completed_drifts = MapInsert(@, drift_id, result.result)]]
        y == IF MapHas(x1.rt.active_requests, req_id)
             THEN LET req_data == x1.rt.active_requests[req_id]
                      x2 == [x1 EXCEPT !.rt = [@ EXCEPT
                               !.drift_counter = resume_counter(x1.rt, req_id)]]
                  IN  execute_action_optimized(x2, req_id, req_data.action_name,
                                               req_data)
             ELSE x1
    IN  [y EXCEPT !.rt = resume_cleanup(@, req_id)]

\* ------------------------------------------------------- route matcher
Digits == {"0", "1", "2", "3", "4", "5", "6", "7", "8", "9"}

RECURSIVE trim_start(_)
trim_start(s) == IF s # << >> /\ Head(s) = "/" THEN trim_start(Tail(s)) ELSE s

RECURSIVE trim_end(_, _)
trim_end(s, c) ==
    IF s # << >> /\ s[Len(s)] = c THEN trim_end(SubSeq(s, 1, Len(s) - 1), c) ELSE s

\* str::trim_matches('/')
trim_matches(s) == trim_end(trim_start(s), "/")

\* str::split(c): the segments between the occurrences of c ("" gives one
\* empty segment).
RECURSIVE split(_, _)
split(s, c) ==
    IF \E i \in 1 .. Len(s) : s[i] = c
    THEN LET i == CHOOSE j \in 1 .. Len(s) :
                     s[j] = c /\ \A k \in 1 .. (j - 1) : s[k] # c
         IN  <<SubSeq(s, 1, i - 1)>> \o split(SubSeq(s, i + 1, Len(s)), c)
    ELSE <<s>>

\* str::split_once('<')
split_once(s) ==
    IF \E i \in 1 .. Len(s) : s[i] = "<"
    THEN LET i == CHOOSE j \in 1 .. Len(s) :
                     s[j] = "<" /\ \A k \in 1 .. (j - 1) : s[k] # "<"
         IN  Some(<<SubSeq(s, 1, i - 1), SubSeq(s, i + 1, Len(s))>>)
    ELSE None

\* A parse that accepts every non-empty segment.
parse_i64_ok_nonempty(val) == val # << >>

\* val.parse::<i64>().is_ok(): an optional sign and at least one digit (the
\* segments of the model are too short to leave the i64 range).
parse_i64_ok(val) ==
    LET digits == IF val # << >> /\ Head(val) \in {"+", "-"} THEN Tail(val) ELSE val
    IN  digits # << >> /\ \A i \in 1 .. Len(digits) : digits[i] \in Digits

STRING_TY == <<"s", "t", "r", "i", "n", "g">>
NUMBER_TY == <<"n", "u", "m", "b", "e", "r">>

\* One pattern segment against one path segment, given the parameters bound so
\* far: the new bindings, or None on a mismatch.
RECURSIVE match_segments(_, _, _)
match_segments(pats, vals, params) ==
    IF pats = << >> \/ vals = << >>
    THEN Some(params)
    ELSE LET pat == Head(pats)
             val == Head(vals)
         IN  IF pat # << >> /\ Head(pat) = ":"
             THEN LET inner == Tail(pat)
                      so == split_once(inner)
                      name == IF so.some THEN so.val[1] ELSE inner
                      ty == IF so.some THEN trim_end(so.val[2], ">") ELSE STRING_TY
                      valid == CASE ty = NUMBER_TY -> parse_i64_ok(val)
                                 [] ty = STRING_TY -> TRUE
                                 [] OTHER -> FALSE
                  IN  IF ~valid
                      THEN None
                      ELSE match_segments(Tail(pats), Tail(vals),
                                          MapInsert(params, name, val))
             ELSE IF pat # val
                  THEN None
                  ELSE match_segments(Tail(pats), Tail(vals), params)

\* A matcher that prefers the last qualifying route to the first.
RECURSIVE match_dynamic_route_last(_, _, _)
match_dynamic_route_last(method, path, routes) ==
    IF routes = << >>
    THEN None
    ELSE LET route == Head(routes)
             path_segments == split(trim_matches(path), "/")
             pattern_segments == split(trim_matches(route.pattern), "/")
             m == match_segments(pattern_segments, path_segments, EmptyMap)
             rest == match_dynamic_route_last(method, path, Tail(routes))
         IN  IF rest.some
             THEN rest
             ELSE IF route.method # method
                     \/ Len(pattern_segments) # Len(path_segments)
                     \/ ~m.some
             THEN None
             ELSE Some([action |-> route.action, params |-> m.val])

\* match_dynamic_route: the first route of the list that matches the request.
RECURSIVE match_dynamic_route(_, _, _)
match_dynamic_route(method, path, routes) ==
    IF routes = << >>
    THEN None
    ELSE LET route == Head(routes)
             path_segments == split(trim_matches(path), "/")
             pattern_segments == split(trim_matches(route.pattern), "/")
             m == match_segments(pattern_segments, path_segments, EmptyMap)
         IN  IF route.method # method
                \/ Len(pattern_segments) # Len(path_segments)
                \/ ~m.some
             THEN match_dynamic_route(method, path, Tail(routes))
             ELSE Some([action |-> route.action, params |-> m.val])

\* -------------------------------------------------------- configuration
\* routes.json of the model.  A route value is a JSON string [str |-> ..] or a
\* JSON object [obj |-> ..]; a route key is "METHOD:PATH" or a bare path.
StrictKey(method, path) == method \o <<":">> \o path

P_root == <<"/">>
P_h == <<"/", "h">>
P_c == <<"/", "c">>
P_w == <<"/", "w">>
P_a == <<"/", "a">>
P_b == <<"/", "b">>
P_s0 == <<"/", "s", "/", "0">>
P_s1 == <<"/", "s", "/", "1">>
P_u7 == <<"/", "u", "/", "7">>
P_ux == <<"/", "u", "/", "x">>
P_n == <<"/", "n">>
P_zz == <<"/", "z", "/", "z">>
P_u1 == <<"/", "u", "/", "1">>
P_e == <<"/", "e">>
P_k == <<"/", "k">>
P_m == <<"/", "m">>
P_t == <<"/", "t">>
P_l == <<"/", "l">>

Routes ==
    { [key |-> StrictKey(GET, P_root), type |-> "action", value |-> [str |-> "home"]],
      [key |-> P_h, type |-> "text", value |-> [str |-> "ok"]],
      [key |-> StrictKey(GET, P_c), type |-> "json", value |-> [obj |-> "{a:1}"]],
      [key |-> P_w, type |-> "string", value |-> [str |-> "hi"]],
      [key |-> P_n, type |-> "text", value |-> [num |-> 42]],
      [key |-> P_c, type |-> "text", value |-> [str |-> "bare"]],
      [key |-> StrictKey(GET, P_u1), type |-> "action", value |-> [str |-> "chain"]],
      [key |-> StrictKey(GET, P_e), type |-> "action", value |-> [str |-> "boom"]],
      [key |-> StrictKey(GET, P_k), type |-> "action", value |-> [str |-> "banned"]],
      [key |-> StrictKey(GET, P_m), type |-> "action", value |-> [str |-> "ghost"]],
      [key |-> StrictKey(GET, P_t), type |-> "action", value |-> [str |-> "twice"]],
      [key |-> StrictKey(GET, P_l), type |-> "action", value |-> [str |-> "late"]],
      [key |-> StrictKey(GET, P_a), type |-> "action", value |-> [str |-> "one"]],
      [key |-> StrictKey(GET, P_b), type |-> "action", value |-> [str |-> "chain"]] }

DynamicRoutes ==
    << [method |-> GET,
        pattern |-> <<"/", "s", "/", ":", "i", "d">>,
        action |-> "guarded"],
       [method |-> GET,
        pattern |-> <<"/", "u", "/", ":", "i", "d", "<">> \o NUMBER_TY \o <<">">>,
        action |-> "one"] >>

\* HashMap::get on the route table.
routes_get(key) ==
    IF \E r \in Routes : r.key = key
    THEN Some(CHOOSE r \in Routes : r.key = key)
    ELSE None

\* A lookup that tries the bare path before "METHOD:PATH".
lookup_exact_bare_first(method, path) ==
    LET bare == routes_get(path)
    IN  IF bare.some THEN bare ELSE routes_get(StrictKey(method, path))

\* lookup of the exact route: routes.get(strict_key).or_else(routes.get(path))
lookup_exact(method, path) ==
    LET strict == routes_get(StrictKey(method, path))
    IN  IF strict.some THEN strict ELSE routes_get(path)

\* Value::as_str
as_str(value) == IF "str" \in DOMAIN value THEN Some(value.str) ELSE None

\* A precomputed json reply labelled as plain text.
PrecomputedRoute_from_json_as_text(value) ==
    [body |-> [json |-> value], content_type |-> "text/plain; charset=utf-8"]

\* PrecomputedRoute::from_json / from_text
PrecomputedRoute_from_json(value) ==
    [body |-> [json |-> value], content_type |-> "application/json"]

PrecomputedRoute_from_text(text) ==
    [body |-> Body(text, << >>), content_type |-> "text/plain; charset=utf-8"]

\* The precomputed map main() builds: one entry per json route and per text
\* route with a string value, under the route's own key.
precomputed_get(key) ==
    LET r == routes_get(key)
    IN  IF r.some /\ r.val.type = "json"
        THEN Some(PrecomputedRoute_from_json(r.val.value))
        ELSE IF r.some /\ r.val.type = "text" /\ as_str(r.val.value).some
        THEN Some(PrecomputedRoute_from_text(r.val.value.str))
        ELSE None

\* The registry FastPathRegistry::build derives from the action files: home
\* and guarded contain one response call each, with a literal body.
StaticResponse(body, content_type, status, extra_headers) ==
    [body |-> body, content_type |-> content_type, status |-> status,
     extra_headers |-> extra_headers]

fast_paths_get(action_name) ==
    CASE action_name = "home" ->
           Some(StaticResponse(HelloBody, "application/json", 200, << >>))
      [] action_name = "guarded" ->
           Some(StaticResponse(OkBody, "application/json", 200, << >>))
      [] OTHER -> None

\* ------------------------------------------------------ static analyzer
\* extract_response_options: status and headers of a statically evaluated
\* options value (a JSON object [obj |-> fields], or another JSON value).
extract_response_options(val) ==
    IF "obj" \notin DOMAIN val
    THEN [status |-> 200, headers |-> << >>]
    ELSE [status |-> IF "status" \in DOMAIN val.obj
                        /\ val.obj.status >= 100 /\ val.obj.status <= 599
                     THEN val.obj.status
                     ELSE 200,
          headers |-> IF "headers" \in DOMAIN val.obj THEN val.obj.headers ELSE << >>]

\* An argument of a call: a spread element or an expression; eval_static of
\* an expression is the JSON value it provably has, or None.
Argument(spread, static) == [spread |-> spread, static |-> static]

eval_static(arg) == arg.static

\* analyze_response_call on one t.response.<method>(arguments) call, given the
\* responses collected so far and has_dynamic: the two after the call.
analyze_response_call(call, acc) ==
    LET dynamic == [acc EXCEPT !.has_dynamic = TRUE]
        args == call.arguments
    IN  IF args = << >>
        THEN acc
        ELSE IF args[1].spread
        THEN dynamic
        ELSE LET opts_expr == IF Len(args) >= 2 /\ ~args[2].spread
                              THEN Some(args[2]) ELSE None
                 body_value == eval_static(args[1])
             IN  IF ~body_value.some
                 THEN dynamic
                 ELSE IF opts_expr.some /\ ~eval_static(opts_expr.val).some
                 THEN dynamic
                 ELSE LET options ==
                              IF opts_expr.some
                              THEN extract_response_options(eval_static(opts_expr.val).val)
                              ELSE [status |-> 200, headers |-> << >>]
                          push(body, content_type) ==
                              [acc EXCEPT !.responses =
                                  Append(@, [body |-> body,
                                             content_type |-> content_type,
                                             status |-> options.status,
                                             extra_headers |-> options.headers])]
                      IN  CASE call.method = "json" ->
                                 push([json |-> body_value.val], "application/json")
                            [] call.method = "text" ->
                                 IF "str" \in DOMAIN body_value.val
                                 THEN push([text |-> body_value.val.str, vals |-> << >>],
                                           "text/plain")
                                 ELSE dynamic
                            [] call.method = "html" ->
                                 IF "str" \in DOMAIN body_value.val
                                 THEN push([text |-> body_value.val.str, vals |-> << >>],
                                           "text/html")
                                 ELSE dynamic
                            [] OTHER -> dynamic

\* unique_response
unique_response(responses) ==
    IF responses = << >>
    THEN None
    ELSE IF \A i \in 1 .. Len(responses) : responses[i] = responses[1]
    THEN Some(responses[1])
    ELSE None

RECURSIVE analyze_calls(_, _)
analyze_calls(calls, acc) ==
    IF calls = << >> THEN acc
    ELSE analyze_calls(Tail(calls), analyze_response_call(Head(calls), acc))

\* analyze_action_source on a file that parses, given its t.response.json,
\* text and html calls in source order.
analyze_action_source(calls) ==
    LET r == analyze_calls(calls, [responses |-> << >>, has_dynamic |-> FALSE])
    IN  IF r.has_dynamic \/ r.responses = << >>
        THEN None
        ELSE unique_response(r.responses)

\* ------------------------------------------------------------ responses
\* An HTTP response: status, content type, body, Location, the labels of
\* its Server-Timing header (empty: no header).
Response(status, content_type, body, server_timing) ==
    [status |-> status, content_type |-> content_type, body |-> body,
     location |-> "", server_timing |-> server_timing]

TEXT_PLAIN == "text/plain; charset=utf-8"

\* String::into_response and Json(v).into_response
string_response(text) == Response(200, TEXT_PLAIN, Body(text, << >>), << >>)

json_response(status, value) ==
    Response(status, "application/json", [json |-> value], << >>)

\* StaticResponse::to_axum_response and PrecomputedRoute::to_axum_response
static_to_axum_response(r) == Response(r.status, r.content_type, r.body, << >>)

precomputed_to_axum_response(r) == Response(200, r.content_type, r.body, << >>)

\* ----------------------------------------------------------- dispatcher
\* A phase 1 that never consults the fast-path registry for action routes.
handler_phase1_no_fastpath(req, production_mode) ==
    LET strict_key == StrictKey(req.method, req.path)
        route == lookup_exact(req.method, req.path)
        timed(resp, label) ==
            IF production_mode THEN resp
            ELSE [resp EXCEPT !.server_timing = <<label>>]
    IN  IF ~route.some
        THEN None
        ELSE LET r == route.val
             IN  CASE r.type \in {"json", "text"} ->
                        LET pre == precomputed_get(strict_key)
                        IN  IF pre.some
                            THEN Some(timed(precomputed_to_axum_response(pre.val),
                                            "reply"))
                            ELSE IF r.type = "json"
                            THEN Some(json_response(200, r.value))
                            ELSE IF as_str(r.value).some
                            THEN Some(string_response(r.value.str))
                            ELSE None
                   [] r.type = "action" -> None
                   [] OTHER ->
                        IF as_str(r.value).some
                        THEN Some(string_response(r.value.str))
                        ELSE None

\* Phase 1 of handler: the replies that need neither the request body nor a
\* worker.  Some(response), or None when the request goes on to phase 2.
handler_phase1(req, production_mode) ==
    LET strict_key == StrictKey(req.method, req.path)
        route == lookup_exact(req.method, req.path)
        timed(resp, label) ==
            IF production_mode THEN resp
            ELSE [resp EXCEPT !.server_timing = <<label>>]
    IN  IF ~route.some
        THEN None
        ELSE LET r == route.val
             IN  CASE r.type \in {"json", "text"} ->
                        LET pre == precomputed_get(strict_key)
                        IN  IF pre.some
                            THEN Some(timed(precomputed_to_axum_response(pre.val),
                                            "reply"))
                            ELSE IF r.type = "json"
                            THEN Some(json_response(200, r.value))
                            ELSE IF as_str(r.value).some
                            THEN Some(string_response(r.value.str))
                            ELSE None
                   [] r.type = "action" ->
                        LET action_name == IF as_str(r.value).some
                                           THEN r.value.str ELSE ""
                            static_resp == fast_paths_get(action_name)
                        IN  IF static_resp.some
                            THEN Some(timed(static_to_axum_response(static_resp.val),
                                            "fastpath"))
                            ELSE None
                   [] OTHER ->
                        IF as_str(r.value).some
                        THEN Some(string_response(r.value.str))
                        ELSE None

\* Phases 2 and 3 of handler up to the call of execute: a response, or the
\* request task to dispatch.
handler_resolve(req, h) ==
    LET route == lookup_exact(req.method, req.path)
        exact_action == route.some /\ route.val.type = "action"
        dyn == match_dynamic_route(req.method, req.path, DynamicRoutes)
        task(action_name, params) ==
            [action_name |-> action_name,
             body |-> IF req.body # << >> THEN Some(req.body) ELSE None,
             method |-> req.method, path |-> req.path,
             headers |-> EmptyMap, params |-> params, query |-> EmptyMap,
             response_tx |-> h, origin |-> h]
    IN  IF ~req.body_ok
        THEN [kind |-> "response",
              resp |-> Response(400, TEXT_PLAIN,
                                Body("Failed to read request body", << >>), << >>)]
        ELSE IF exact_action
        THEN [kind |-> "dispatch",
              task |-> task(IF as_str(route.val.value).some
                            THEN route.val.value.str ELSE "unknown", EmptyMap)]
        ELSE IF route.some /\ route.val.type = "json"
        THEN [kind |-> "response", resp |-> json_response(200, route.val.value)]
        ELSE IF route.some /\ as_str(route.val.value).some
        THEN [kind |-> "response", resp |-> string_response(route.val.value.str)]
        ELSE IF dyn.some
        THEN [kind |-> "dispatch", task |-> task(dyn.val.action, dyn.val.params)]
        ELSE [kind |-> "response",
              resp |-> Response(404, TEXT_PLAIN, Body("Not Found", << >>), << >>)]

\* Phase 4 without the error test: the response object construction and the
\* Server-Timing header (main.rs:354-413).
handler_response_object(result_json, timings, production_mode) ==
    LET is_resp == "_isResponse" \in DOMAIN result_json
                   /\ result_json._isResponse = TRUE
        status_u16 == IF "status" \in DOMAIN result_json /\ result_json.status >= 0
                      THEN result_json.status % 65536 ELSE 200
        status == IF status_u16 \in 100 .. 999 THEN status_u16 ELSE 200
        content_type ==
            IF "headers" \in DOMAIN result_json
               /\ "content_type" \in DOMAIN result_json.headers
            THEN result_json.headers.content_type ELSE ""
        is_redirect == "redirect" \in DOMAIN result_json
                       /\ as_str(result_json.redirect).some
        body == IF is_redirect \/ "body" \notin DOMAIN result_json
                THEN Body("", << >>) ELSE result_json.body
        built == [status |-> IF is_redirect /\ status \notin 300 .. 399
                             THEN 302 ELSE status,
                  content_type |-> content_type,
                  body |-> body,
                  location |-> IF is_redirect THEN result_json.redirect.str ELSE "",
                  server_timing |-> << >>]
        response == IF is_resp THEN built ELSE json_response(200, result_json)
    IN  IF ~production_mode /\ timings # << >>
        THEN [response EXCEPT !.server_timing = timings]
        ELSE response

\* A phase 4 that builds a response object before it looks for an error.
handler_response_object_first(result_json, timings, production_mode) ==
    IF "_isResponse" \in DOMAIN result_json /\ result_json._isResponse = TRUE
    THEN handler_response_object(result_json, timings, production_mode)
    ELSE IF "error" \in DOMAIN result_json
    THEN json_response(500, result_json)
    ELSE handler_response_object(result_json, timings, production_mode)

\* Phase 4 of handler: the HTTP response built from the worker's result.
handler_response(result_json, timings, production_mode) ==
    IF "error" \in DOMAIN result_json
    THEN json_response(500, result_json)
    ELSE handler_response_object(result_json, timings, production_mode)

\* ---------------------------------------------------------------- state
VARIABLES
    rt,                   \* per worker: its TitanRuntime
    queues,               \* per worker: the commands in its bounded channel
    round_robin_counter,  \* RuntimeManager.round_robin_counter
    asyncChan,            \* the AsyncOpRequests in the global mpsc channel
    running,              \* the ops the executor has spawned and not finished
    oneshot,              \* per HTTP request: what its response_tx has received
    http,                 \* per HTTP request: the state of its handler call
    lastResponse,         \* the HTTP response handler returned most recently
    production_mode,      \* AppState.production_mode
    lastExec,             \* log of the most recent action execution
    hist,                 \* per HTTP request in flight: history of its executions
    alive,                \* per worker: its thread runs (its receiver exists)
    probe                 \* a pure function's input and, once applied, its output

vars == <<rt, queues, round_robin_counter, asyncChan, running, oneshot, http,
          lastResponse, production_mode, lastExec, hist, alive, probe>>

\* The HTTP requests the model sends.
Request(method, path) == [method |-> method, path |-> path, body |-> << >>,
                          body_ok |-> TRUE]

\* Requests for the actions that drift (one, chain) and for one that does not.
DriftRequests == { Request(GET, P_a), Request(GET, P_b), Request(GET, P_s1) }

\* Requests that cover the route table.
RouteRequests ==
    { Request(GET, P_root), Request(GET, P_h), Request(GET, P_c), Request(GET, P_w),
      Request(GET, P_s0), Request(GET, P_s1), Request(GET, P_u7),
      Request(GET, P_ux), Request(POST, P_a), Request(GET, P_n),
      Request(GET, P_zz) }

NoExec == [origin |-> 0, worker |-> 0, request_id |-> 0, start |-> 0,
           action_name |-> "",
           resumed |-> FALSE, suspended |-> FALSE, finished |-> FALSE,
           thrown |-> "none", timings |-> << >>, dropped |-> FALSE, log |-> NoLog]

NoHist == [worker |-> -1, start |-> -1, sent |-> 0, susp |-> 0, rejected |-> 0,
          results |-> 0,
          own |-> << >>, blocking |-> FALSE]

IdleHttp == [pc |-> "idle", req |-> None, cmd |-> None, start_idx |-> 0]

DoneHttp == [IdleHttp EXCEPT !.pc = "done"]

\* A response handler returned: to which request, and whether handler read the
\* request body and whether it called execute on the way.
Returned(h, req, resp, body_read, dispatched) ==
    [h |-> h, req |-> req, resp |-> resp, body_read |-> body_read,
     dispatched |-> dispatched]

NoResponse == Returned(0, Request(<< >>, << >>), Response(0, "", Body("", << >>), << >>),
                       FALSE, FALSE)

\* No pure function is under examination.
NoProbe == [kind |-> "none"]

\* The state after main has built the AppState and the RuntimeManager.
InitSystem ==
    /\ rt = [w \in Workers |-> init_runtime_worker(w, w)]
    /\ queues = [w \in Workers |-> << >>]
    /\ round_robin_counter = 0
    /\ asyncChan = << >>
    /\ running = EmptyBag
    /\ oneshot = [h \in HttpIds |-> None]
    /\ http = [h \in HttpIds |-> IdleHttp]
    /\ production_mode \in BOOLEAN
    /\ lastResponse = NoResponse
    /\ lastExec = NoExec
    /\ hist = [h \in HttpIds |-> NoHist]
    /\ alive = [w \in Workers |-> TRUE]

Init ==
    /\ InitSystem
    /\ probe = NoProbe

\* WorkerCommand
RequestCmd(task) == [kind |-> "Request", task |-> task]
ResumeCmd(drift_id, result) ==
    [kind |-> "Resume", drift_id |-> drift_id, result |-> result]

\* A try_send loop that passes over disconnected workers.
RECURSIVE try_send_target_skip_dead(_, _, _, _)
try_send_target_skip_dead(qs, al, start_idx, attempt) ==
    IF attempt >= NumWorkers
    THEN [kind |-> IF \E w \in Workers : al[w] THEN "full" ELSE "disconnected"]
    ELSE LET idx == (start_idx + attempt) % NumWorkers
         IN  IF al[idx] /\ Len(qs[idx]) < channel_capacity
             THEN [kind |-> "sent", idx |-> idx]
             ELSE try_send_target_skip_dead(qs, al, start_idx, attempt + 1)

\* A try_send loop that gives up when the selected worker's queue is full.
try_send_target_no_fallback(qs, al, start_idx, attempt) ==
    IF ~al[start_idx]
    THEN [kind |-> "disconnected"]
    ELSE IF Len(qs[start_idx]) < channel_capacity
    THEN [kind |-> "sent", idx |-> start_idx]
    ELSE [kind |-> "full"]

\* The outcome of execute's try_send loop: the command is sent to the first
\* worker at or after start_idx, in cyclic order, whose queue is not full; the
\* loop ends in an error at the first worker whose channel is disconnected;
\* all queues were full.
RECURSIVE try_send_target(_, _, _, _)
try_send_target(qs, al, start_idx, attempt) ==
    IF attempt >= NumWorkers
    THEN [kind |-> "full"]
    ELSE LET idx == (start_idx + attempt) % NumWorkers
         IN  IF ~al[idx]
             THEN [kind |-> "disconnected"]
             ELSE IF Len(qs[idx]) < channel_capacity
             THEN [kind |-> "sent", idx |-> idx]
             ELSE try_send_target(qs, al, start_idx, attempt + 1)

\* What handler makes of Err(e) from execute: the result {"error": e}, which
\* phase 4 answers with status 500.
execute_error(e, prod) ==
    handler_response([error |-> e], << >>, prod)

WORKER_DISCONNECTED == "Worker disconnected"
\* SendError's Display
SEND_ERROR == "sending on a disconnected channel"

\* handler up to the point where it returns or awaits the worker's result.
Handler(h, requests) ==
    /\ http[h].pc = "idle"
    /\ IF h = 1 THEN TRUE ELSE http[h - 1].pc # "idle"
    /\ \E req \in requests :
         LET fast == handler_phase1(req, production_mode)
             res == handler_resolve(req, h)
             start_idx == round_robin_counter % NumWorkers
             target == try_send_target(queues, alive, start_idx, 0)
         IN  IF fast.some
             THEN /\ http' = [http EXCEPT ![h] = DoneHttp]
                  /\ lastResponse' = Returned(h, req, fast.val, FALSE, FALSE)
                  /\ UNCHANGED <<queues, round_robin_counter>>
             ELSE IF res.kind = "response"
             THEN /\ http' = [http EXCEPT ![h] = DoneHttp]
                  /\ lastResponse' = Returned(h, req, res.resp, TRUE, FALSE)
                  /\ UNCHANGED <<queues, round_robin_counter>>
             ELSE /\ round_robin_counter' = round_robin_counter + 1
                  /\ CASE target.kind = "sent" ->
                            /\ queues' = [queues EXCEPT ![target.idx] =
                                   Append(@, RequestCmd(res.task))]
                            /\ http' = [http EXCEPT ![h] =
                                   [@ EXCEPT !.pc = "awaiting", !.req = Some(req),
                                             !.start_idx = start_idx]]
                            /\ lastResponse' = lastResponse
                       [] target.kind = "disconnected" ->
                            /\ queues' = queues
                            /\ http' = [http EXCEPT ![h] = DoneHttp]
                            /\ lastResponse' =
                                   Returned(h, req,
                                            execute_error(WORKER_DISCONNECTED,
                                                          production_mode),
                                            TRUE, TRUE)
                       [] OTHER ->
                            /\ queues' = queues
                            /\ http' = [http EXCEPT ![h] =
                                   [@ EXCEPT !.pc = "blocked", !.req = Some(req),
                                             !.cmd = Some(RequestCmd(res.task)),
                                             !.start_idx = start_idx]]
                            /\ lastResponse' = lastResponse
    /\ UNCHANGED <<rt, asyncChan, running, oneshot, production_mode, lastExec, hist,
                   alive, probe>>

\* A last resort that sends to the worker after the one first selected.
ExecuteBlockingSend_next_worker(h) ==
    LET idx == (http[h].start_idx + 1) % NumWorkers
    IN  /\ http[h].pc = "blocked"
        /\ alive[idx]
        /\ Len(queues[idx]) < channel_capacity
        /\ queues' = [queues EXCEPT ![idx] = Append(@, http[h].cmd.val)]
        /\ http' = [http EXCEPT ![h] = [@ EXCEPT !.pc = "awaiting", !.cmd = None]]
        /\ hist' = [hist EXCEPT ![h] = [@ EXCEPT !.blocking = TRUE]]
        /\ UNCHANGED <<rt, round_robin_counter, asyncChan, running, oneshot,
                       lastResponse, production_mode, lastExec, alive, probe>>

\* execute's last resort: the blocking send on the worker first selected.
ExecuteBlockingSend(h) ==
    /\ http[h].pc = "blocked"
    /\ alive[http[h].start_idx]
    /\ Len(queues[http[h].start_idx]) < channel_capacity
    /\ queues' = [queues EXCEPT ![http[h].start_idx] = Append(@, http[h].cmd.val)]
    /\ http' = [http EXCEPT ![h] = [@ EXCEPT !.pc = "awaiting", !.cmd = None]]
    /\ hist' = [hist EXCEPT ![h] = [@ EXCEPT !.blocking = TRUE]]
    /\ UNCHANGED <<rt, round_robin_counter, asyncChan, running, oneshot,
                   lastResponse, production_mode, lastExec, alive, probe>>

\* execute's blocking send fails: the selected worker's channel is
\* disconnected, and handler answers with the error.
ExecuteSendFails(h) ==
    /\ http[h].pc = "blocked"
    /\ ~alive[http[h].start_idx]
    /\ http' = [http EXCEPT ![h] = DoneHttp]
    /\ lastResponse' = Returned(h, http[h].req.val,
                                execute_error(SEND_ERROR, production_mode),
                                TRUE, TRUE)
    /\ UNCHANGED <<rt, queues, round_robin_counter, asyncChan, running, oneshot,
                   production_mode, lastExec, hist, alive, probe>>

\* handler once the oneshot delivers the WorkerResult.
HandlerRespond(h) ==
    /\ http[h].pc = "awaiting"
    /\ oneshot[h].some
    /\ lastResponse' = Returned(h, http[h].req.val,
                                handler_response(oneshot[h].val.json,
                                                 oneshot[h].val.timings,
                                                 production_mode),
                                TRUE, TRUE)
    /\ http' = [http EXCEPT ![h] = DoneHttp]
    /\ oneshot' = [oneshot EXCEPT ![h] = None]
    /\ hist' = [hist EXCEPT ![h] =
           [@ EXCEPT !.sent = 0, !.susp = 0]]
    /\ UNCHANGED <<rt, queues, round_robin_counter, asyncChan, running,
                   production_mode, lastExec, alive, probe>>

\* History of the executions of the request with origin tag o, after one more:
\* the AsyncOpRequests its executions sent, how often it suspended, how many
\* of its sends the executor channel rejected, how many WorkerResults were
\* sent on its response_tx.
Recorded(h0, o, y) ==
    [h0 EXCEPT ![o] =
        [@ EXCEPT !.sent = @ + y.log.sent,
                  !.results = @ + y.log.results,
                  !.susp = @ + (IF y.thrown = SUSPEND THEN 1 ELSE 0),
                  !.rejected = @ + y.log.rejected]]

\* Whether an execution for the request with origin tag o ended with
\* _finish_request delivering the action's result.
Finished(y, o) == y.oneshot[o].some /\ "error" \notin DOMAIN y.oneshot[o].val.json

\* The timings of the WorkerResult an execution delivered for origin tag o.
Delivered(y, o) == IF Finished(y, o) THEN y.oneshot[o].val.timings ELSE << >>

\* History after a Resume was processed: the request whose op produced the
\* result has one more Resume of its own, with the label of the result.
OwnResume(h0, cmd) ==
    IF "data" \in DOMAIN cmd.result.result
    THEN [h0 EXCEPT ![cmd.result.result.data.origin] =
             [@ EXCEPT !.own = Append(@, timing_type(cmd.result.result))]]
    ELSE h0

\* Worker w handles a Request command: handle_new_request.
HandleRequest(w, task) ==
    /\ LET y == handle_new_request(World(rt[w], asyncChan, oneshot), task)
       IN  /\ rt' = [rt EXCEPT ![w] = y.rt]
           /\ asyncChan' = y.chan
           /\ oneshot' = y.oneshot
           /\ lastExec' = [origin |-> task.origin,
                          action_name |-> task.action_name,
                          worker |-> w,
                          request_id |-> rt[w].request_counter + 1,
                          start |-> rt[w].drift_counter,
                          resumed |-> FALSE,
                          suspended |-> y.thrown = SUSPEND,
                          finished |-> Finished(y, task.origin),
                          thrown |-> y.thrown,
                          timings |-> Delivered(y, task.origin),
                          dropped |-> oneshot[task.origin] = Closed,
                          log |-> y.log]
           /\ hist' = Recorded([hist EXCEPT ![task.origin] =
                                     [@ EXCEPT !.worker = w,
                                               !.blocking = FALSE,
                                               !.start = rt[w].drift_counter]],
                                task.origin, y)
    /\ UNCHANGED <<round_robin_counter, running, http, lastResponse,
                   production_mode, alive>>

\* The worker loop taking a Request command and handling it to its end.
WorkerRequest(w) ==
    /\ alive[w]
    /\ queues[w] # << >>
    /\ Head(queues[w]).kind = "Request"
    /\ HandleRequest(w, Head(queues[w]).task)
    /\ queues' = [queues EXCEPT ![w] = Tail(@)]
    /\ UNCHANGED probe

\* Worker w handles a Resume command: handle_resume.
HandleResume(w, cmd) ==
    /\ LET req_id == resume_request(rt[w], cmd.drift_id)
           replayed == MapHas(rt[w].active_requests, req_id)
           y == handle_resume(World(rt[w], asyncChan, oneshot), cmd.drift_id,
                              cmd.result)
       IN  /\ rt' = [rt EXCEPT ![w] = y.rt]
           /\ asyncChan' = y.chan
           /\ oneshot' = y.oneshot
           /\ IF replayed
              THEN LET o == rt[w].active_requests[req_id].origin
                   IN  /\ lastExec' = [origin |-> o,
                                      action_name |->
                                          rt[w].active_requests[req_id].action_name,
                                      worker |-> w,
                                      request_id |-> req_id,
                                      start |-> hist[o].start,
                                      resumed |-> TRUE,
                                      suspended |-> y.thrown = SUSPEND,
                                      finished |-> Finished(y, o),
                                      thrown |-> y.thrown,
                                      timings |-> Delivered(y, o),
                                      dropped |-> oneshot[o] = Closed,
                                      log |-> y.log]
                       /\ hist' = Recorded(OwnResume(hist, cmd), o, y)
              ELSE /\ lastExec' = NoExec
                   /\ hist' = OwnResume(hist, cmd)
    /\ UNCHANGED <<round_robin_counter, running, http, lastResponse,
                   production_mode, alive>>

\* The worker loop taking a Resume command and handling it to its end.
WorkerResume(w) ==
    /\ alive[w]
    /\ queues[w] # << >>
    /\ Head(queues[w]).kind = "Resume"
    /\ HandleResume(w, Head(queues[w]))
    /\ queues' = [queues EXCEPT ![w] = Tail(@)]
    /\ UNCHANGED probe

\* The async handler task: receive a request and spawn its op.
AsyncRecv ==
    /\ asyncChan # << >>
    /\ running' = running (+) SetToBag({Head(asyncChan)})
    /\ asyncChan' = Tail(asyncChan)
    /\ UNCHANGED <<rt, queues, round_robin_counter, oneshot, http, lastResponse,
                   production_mode, lastExec, hist, alive, probe>>

\* A spawned op finishes: its result goes to respond_tx, and the task that
\* waits on it sends Resume on the worker_tx it holds (a blocking send).
AsyncComplete ==
    \E r \in BagToSet(running) :
        /\ alive[r.worker_tx] => Len(queues[r.worker_tx]) < channel_capacity
        /\ running' = running (-) SetToBag({r})
        /\ queues' = IF alive[r.worker_tx]
                     THEN [queues EXCEPT ![r.worker_tx] =
                             Append(@, ResumeCmd(r.drift_id,
                                                 [drift_id |-> r.drift_id,
                                                  result |-> run_async_operation(r.op)]))]
                     ELSE queues
        /\ UNCHANGED <<rt, round_robin_counter, asyncChan, oneshot, http,
                       lastResponse, production_mode, lastExec, hist, alive, probe>>

Next ==
    \/ \E h \in HttpIds : Handler(h, DriftRequests)
    \/ \E h \in HttpIds : ExecuteBlockingSend(h)
    \/ \E h \in HttpIds : HandlerRespond(h)
    \/ \E w \in Workers : WorkerRequest(w)
    \/ \E w \in Workers : WorkerResume(w)
    \/ AsyncRecv
    \/ AsyncComplete

Spec == Init /\ [][Next]_vars

\* Requests of the runs checked under fairness.  Their action does not drift,
\* so no op reaches the executor and no Resume is ever queued: the worker and
\* handler steps below are all the steps these runs can take.
FairRequests == { Request(GET, P_s1) }

NextFair ==
    \/ \E h \in HttpIds : Handler(h, FairRequests)
    \/ \E h \in HttpIds : ExecuteBlockingSend(h)
    \/ \E h \in HttpIds : HandlerRespond(h)
    \/ \E w \in Workers : WorkerRequest(w)

\* Scheduling: every worker thread keeps taking the commands on its queue, a
\* blocked send goes through once there is room, and handler returns once it
\* has its result.
Fairness ==
    /\ \A w \in Workers : WF_vars(WorkerRequest(w))
    /\ \A h \in HttpIds : WF_vars(ExecuteBlockingSend(h)) /\ WF_vars(HandlerRespond(h))

SpecFair == Init /\ [][NextFair]_vars /\ Fairness

\* The same system under requests whose action throws: after a drift (boom),
\* at once (guarded with id 0), with a message of its own (banned); under one
\* whose action finishes after a drift (one); and under one whose action is
\* not loaded (ghost); and under ones whose action calls _finish_request and
\* goes on (twice, late).
ErrorRequests ==
    { Request(GET, P_e), Request(GET, P_k), Request(GET, P_s0), Request(GET, P_a),
      Request(GET, P_m), Request(GET, P_t), Request(GET, P_l) }

NextErrors ==
    \/ \E h \in HttpIds : Handler(h, ErrorRequests)
    \/ \E h \in HttpIds : ExecuteBlockingSend(h)
    \/ \E h \in HttpIds : HandlerRespond(h)
    \/ \E w \in Workers : WorkerRequest(w)
    \/ \E w \in Workers : WorkerResume(w)
    \/ AsyncRecv
    \/ AsyncComplete

SpecErrors == Init /\ [][NextErrors]_vars

\* The same system under requests that cover the route table.
NextRoutes ==
    \/ \E h \in HttpIds : Handler(h, RouteRequests)
    \/ \E h \in HttpIds : ExecuteBlockingSend(h)
    \/ \E h \in HttpIds : HandlerRespond(h)
    \/ \E w \in Workers : WorkerRequest(w)
    \/ \E w \in Workers : WorkerResume(w)
    \/ AsyncRecv
    \/ AsyncComplete

SpecRoutes == Init /\ [][NextRoutes]_vars

\* A worker thread ends (a panic inside a handler unwinds it): its receiver is
\* dropped and its channel is disconnected from then on.
WorkerExit(w) ==
    /\ alive[w]
    /\ alive' = [alive EXCEPT ![w] = FALSE]
    /\ UNCHANGED <<rt, queues, round_robin_counter, asyncChan, running, oneshot,
                   http, lastResponse, production_mode, lastExec, hist, probe>>

\* Requests of the runs in which workers end.
CrashRequests == { Request(GET, P_a) }

\* The system with workers that may end at any time.
NextCrash ==
    \/ \E h \in HttpIds : Handler(h, CrashRequests)
    \/ \E h \in HttpIds : ExecuteBlockingSend(h)
    \/ \E h \in HttpIds : ExecuteSendFails(h)
    \/ \E h \in HttpIds : HandlerRespond(h)
    \/ \E w \in Workers : WorkerRequest(w)
    \/ \E w \in Workers : WorkerResume(w)
    \/ \E w \in Workers : WorkerExit(w)
    \/ AsyncRecv
    \/ AsyncComplete

SpecCrash == Init /\ [][NextCrash]_vars

\* ------------------------------------------------------ pure functions
\* The functions of the program applied to inputs drawn from bounded sets:
\* probe holds the input and, after the application, the output.

\* Script values a batch array may hold at index i: a fetch op, an fs_read op
\* outside the project root, an object of an unknown op type, and a number.
BatchElems(i) ==
    { [type |-> "fetch", origin |-> 1, pos |-> i],
      [type |-> "fs_read", origin |-> 1, pos |-> i, safe |-> FALSE],
      [type |-> "sleep", pos |-> i],
      [num |-> i] }

BatchArrays ==
    UNION { { a \in [1 .. n -> UNION { BatchElems(i) : i \in 1 .. n }] :
                \A i \in 1 .. n : a[i] \in BatchElems(i) } : n \in 0 .. MaxBatch }

BatchProbes == { [kind |-> "batch", done |-> FALSE, arg |-> Array(a)] : a \in BatchArrays }

\* A script on a fresh worker calls _drift_call(arg) for request 1, the
\* executor runs the op it receives, and the replay calls _drift_call(arg)
\* again: the ids allocated, the requests sent and the value the replay gets.
ApplyBatch ==
    /\ probe.kind = "batch"
    /\ ~probe.done
    /\ LET x0 == [World(init_runtime_worker(0, 0), << >>, [h \in HttpIds |-> None])
                    EXCEPT !.titan_req_id = 1]
           y == native_drift_call(x0, probe.arg)
           result == run_async_operation(y.chan[1].op)
           x1 == [x0 EXCEPT !.rt = [y.rt EXCEPT
                    !.drift_counter = 0,
                    !.completed_drifts = MapInsert(@, y.chan[1].drift_id, result)]]
           z == native_drift_call(x1, probe.arg)
       IN  probe' = [kind |-> "batch", done |-> TRUE, arg |-> probe.arg,
                     ids |-> y.log.ids, sent |-> Len(y.chan),
                     drift_counter |-> y.rt.drift_counter,
                     value |-> z.ret]
    /\ UNCHANGED <<rt, queues, round_robin_counter, asyncChan, running, oneshot,
                   http, lastResponse, production_mode, lastExec, hist, alive>>

\* --- the route matcher on its own
PathAlphabet == {"/", "u", "7", "x", "-"}

\* Request paths: a slash followed by up to MaxPath - 1 characters.
ProbePaths ==
    { <<"/">> \o t : t \in UNION { [1 .. n -> PathAlphabet] : n \in 0 .. (MaxPath - 1) } }

DynamicRoute(method, pattern, action) ==
    [method |-> method, pattern |-> pattern, action |-> action]

R_number == DynamicRoute(GET, <<"/", "u", "/", ":", "i", "d", "<">> \o NUMBER_TY \o <<">">>,
                         "by_number")
R_default == DynamicRoute(GET, <<"/", "u", "/", ":", "i", "d">>, "by_default")
R_string == DynamicRoute(GET, <<"/", "u", "/", ":", "k", "<">> \o STRING_TY \o <<">">>,
                         "by_string")
R_unknown == DynamicRoute(GET, <<"/", "u", "/", ":", "i", "d", "<", "u", "u", "i", "d", ">">>,
                          "by_unknown")
R_post == DynamicRoute(POST, <<"/", "u", "/", ":", "k">>, "by_post")
R_any == DynamicRoute(GET, <<"/", ":", "a">>, "by_any")
R_literal == DynamicRoute(GET, <<"/", "u", "/", "x">>, "by_literal")
R_pair == DynamicRoute(GET, <<"/", ":", "a", "/", ":", "b", "<">> \o NUMBER_TY \o <<">">>,
                       "by_pair")

R_middle == DynamicRoute(GET, <<"/", "u", "/", ":", "k", "/", "x">>, "by_middle")

RoutePool == { R_number, R_default, R_string, R_unknown, R_post, R_any, R_literal,
               R_pair, R_middle }

RouteLists == UNION { [1 .. n -> RoutePool] : n \in 0 .. MaxRoutes }

MatchProbes ==
    { [kind |-> "match", done |-> FALSE, method |-> m, path |-> p, routes |-> l] :
        m \in {GET, POST}, p \in ProbePaths, l \in RouteLists }

\* handler calls match_dynamic_route(method, path, routes).
ApplyMatch ==
    /\ probe.kind = "match"
    /\ ~probe.done
    /\ probe' = [kind |-> "match", done |-> TRUE, method |-> probe.method,
                 path |-> probe.path, routes |-> probe.routes,
                 result |-> match_dynamic_route(probe.method, probe.path,
                                                probe.routes)]
    /\ UNCHANGED <<rt, queues, round_robin_counter, asyncChan, running, oneshot,
                   http, lastResponse, production_mode, lastExec, hist, alive>>

\* --- route resolution on its own
ResolveRequests ==
    RouteRequests \cup { Request(GET, P_u1), Request(POST, P_c), Request(GET, P_a),
                         Request(GET, P_b), Request(POST, P_h) }

ResolveProbes ==
    { [kind |-> "resolve", done |-> FALSE, req |-> r, prod |-> b] :
        r \in ResolveRequests, b \in BOOLEAN }

\* handler up to the call of execute, for one request.
ApplyResolve ==
    /\ probe.kind = "resolve"
    /\ ~probe.done
    /\ probe' = [kind |-> "resolve", done |-> TRUE, req |-> probe.req,
                 prod |-> probe.prod,
                 exact |-> lookup_exact(probe.req.method, probe.req.path),
                 phase1 |-> handler_phase1(probe.req, probe.prod),
                 resolve |-> handler_resolve(probe.req, 1)]
    /\ UNCHANGED <<rt, queues, round_robin_counter, asyncChan, running, oneshot,
                   http, lastResponse, production_mode, lastExec, hist, alive>>

\* --- response construction on its own
\* Values of the status field of a worker result.
ResultStatuses == {-1, 0, 99, 200, 301, 399, 400, 404, 1000, 65536 + 301}

ResultFields == {"error", "_isResponse", "status", "redirect", "body"}

\* A worker result with the given top-level keys.
ResultJson(fields, is_resp, status, redirect) ==
    [k \in fields |->
        CASE k = "error" -> "failed"
          [] k = "_isResponse" -> is_resp
          [] k = "status" -> status
          [] k = "redirect" -> redirect
          [] OTHER -> Body("text", << >>)]

ResultJsons ==
    { ResultJson(f, b, st, rd) :
        f \in SUBSET ResultFields, b \in BOOLEAN, st \in ResultStatuses,
        rd \in {[str |-> "/to"], [num |-> 1]} }

ResponseProbes ==
    { [kind |-> "response", done |-> FALSE, result_json |-> j, timings |-> t,
       prod |-> b] :
        j \in ResultJsons, t \in {<< >>, <<"drift">>}, b \in BOOLEAN }

\* handler after execute has returned (result_json, timings).
ApplyResponse ==
    /\ probe.kind = "response"
    /\ ~probe.done
    /\ probe' = [kind |-> "response", done |-> TRUE,
                 result_json |-> probe.result_json, timings |-> probe.timings,
                 prod |-> probe.prod,
                 resp |-> handler_response(probe.result_json, probe.timings,
                                           probe.prod)]
    /\ UNCHANGED <<rt, queues, round_robin_counter, asyncChan, running, oneshot,
                   http, lastResponse, production_mode, lastExec, hist, alive>>

\* --- the FsRead op against a file system that other processes may change
\* Paths are sequences of components.  The file system holds the project
\* root /srv/app with the file a.txt and the symbolic link ln, and the file
\* /srv/x outside of it; the link points at a.txt or at /srv/x.
PROJECT_ROOT == <<"srv", "app">>
FILE_INSIDE == <<"srv", "app", "a.txt">>
FILE_OUTSIDE == <<"srv", "x">>
LINK == <<"srv", "app", "ln">>

LinkTargets == {FILE_INSIDE, FILE_OUTSIDE}

\* The paths a script passes to t.fs.readFile.
FsPaths == { <<"a.txt">>, <<"..", "x">>, <<"ln">>, <<"none">> }

\* PathBuf::join of a relative path.
join(root, path) == root \o path

\* Path::canonicalize: components resolved from the left, ".." to the parent,
\* the link to its target; Err (None) when the result does not exist.
RECURSIVE resolve_components(_, _, _)
resolve_components(acc, comps, link) ==
    IF comps = << >>
    THEN IF acc \in {PROJECT_ROOT, FILE_INSIDE, FILE_OUTSIDE} THEN Some(acc) ELSE None
    ELSE LET c == Head(comps)
         IN  IF c = ".."
             THEN resolve_components(SubSeq(acc, 1, Len(acc) - 1), Tail(comps), link)
             ELSE IF Append(acc, c) = LINK
             THEN resolve_components(link, Tail(comps), link)
             ELSE resolve_components(Append(acc, c), Tail(comps), link)

canonicalize(path, link) == resolve_components(<< >>, path, link)

\* Path::starts_with: a prefix of whole components.
starts_with(path, base) ==
    Len(path) >= Len(base) /\ SubSeq(path, 1, Len(base)) = base

\* The check of FsRead: target.canonicalize().map(|p| p.starts_with(
\* root.canonicalize().unwrap_or(root))).unwrap_or(false)
fs_read_safe(path, link) ==
    LET root == PROJECT_ROOT
        target == join(root, path)
        p == canonicalize(target, link)
        croot == canonicalize(root, link)
    IN  p.some /\ starts_with(p.val, IF croot.some THEN croot.val ELSE root)

\* tokio::fs::read_to_string(target): opens the path as the file system
\* resolves it at the time of the call.
fs_read_to_string(path, link) ==
    LET file == canonicalize(join(PROJECT_ROOT, path), link)
    IN  IF file.some THEN [data |-> file.val] ELSE [error |-> "No such file"]

FsProbes ==
    { [kind |-> "fs", pc |-> "start", path |-> p, link |-> l] :
        p \in FsPaths, l \in LinkTargets }

\* run_async_operation(FsRead) computes safe.
FsCheck ==
    /\ probe.kind = "fs"
    /\ probe.pc = "start"
    /\ probe' = [kind |-> "fs", pc |-> "checked", path |-> probe.path,
                 link |-> probe.link,
                 checked |-> canonicalize(join(PROJECT_ROOT, probe.path), probe.link),
                 safe |-> fs_read_safe(probe.path, probe.link)]
    /\ UNCHANGED <<rt, queues, round_robin_counter, asyncChan, running, oneshot,
                   http, lastResponse, production_mode, lastExec, hist, alive>>

\* run_async_operation(FsRead) reads the file, or denies access.
FsRead ==
    /\ probe.kind = "fs"
    /\ probe.pc = "checked"
    /\ probe' = [kind |-> "fs", pc |-> "done", path |-> probe.path,
                 link |-> probe.link, checked |-> probe.checked,
                 safe |-> probe.safe,
                 read |-> probe.safe,
                 result |-> IF probe.safe
                            THEN fs_read_to_string(probe.path, probe.link)
                            ELSE [error |-> "Access denied"]]
    /\ UNCHANGED <<rt, queues, round_robin_counter, asyncChan, running, oneshot,
                   http, lastResponse, production_mode, lastExec, hist, alive>>

\* Another process replaces the symbolic link while the op is in progress.
FsRelink ==
    /\ probe.kind = "fs"
    /\ probe.pc # "done"
    /\ \E l \in LinkTargets \ {probe.link} : probe' = [probe EXCEPT !.link = l]
    /\ UNCHANGED <<rt, queues, round_robin_counter, asyncChan, running, oneshot,
                   http, lastResponse, production_mode, lastExec, hist, alive>>

\* --- the static analyzer on its own
\* Values of the status option of a response call.
OptionStatuses == {-5, 0, 99, 100, 200, 404, 599, 600, 1000}

OptionValues ==
    { [obj |-> [status |-> n]] : n \in OptionStatuses }
        \cup { [obj |-> [headers |-> << >>]], [num |-> 7] }

OptionsProbes == { [kind |-> "options", done |-> FALSE, val |-> v] : v \in OptionValues }

\* analyze_response_call evaluates the options of a call.
ApplyOptions ==
    /\ probe.kind = "options"
    /\ ~probe.done
    /\ probe' = [kind |-> "options", done |-> TRUE, val |-> probe.val,
                 options |-> extract_response_options(probe.val)]
    /\ UNCHANGED <<rt, queues, round_robin_counter, asyncChan, running, oneshot,
                   http, lastResponse, production_mode, lastExec, hist, alive>>

Call(method, arguments) == [method |-> method, arguments |-> arguments]

A1 == Argument(FALSE, Some([obj |-> "{a:1}"]))
A2 == Argument(FALSE, Some([obj |-> "{a:2}"]))
AText == Argument(FALSE, Some([str |-> "a"]))
ADynamic == Argument(FALSE, None)
ASpread == Argument(TRUE, None)
ANotFound == Argument(FALSE, Some([obj |-> [status |-> 404]]))

\* The response calls the analyzed files are made of.
CallPool ==
    { Call("json", <<A1>>), Call("json", <<A2>>), Call("json", <<ADynamic>>),
      Call("json", << >>), Call("json", <<A1, ASpread>>), Call("json", <<ASpread>>),
      Call("json", <<A1, ANotFound>>), Call("json", <<A1, ADynamic>>),
      Call("text", <<AText>>), Call("text", <<A1>>), Call("html", <<AText>>) }

ActionFiles == UNION { [1 .. n -> CallPool] : n \in 0 .. MaxCalls }

AnalyzerProbes == { [kind |-> "analyze", done |-> FALSE, calls |-> f] : f \in ActionFiles }

\* FastPathRegistry::build analyzes one action file.
ApplyAnalyze ==
    /\ probe.kind = "analyze"
    /\ ~probe.done
    /\ probe' = [kind |-> "analyze", done |-> TRUE, calls |-> probe.calls,
                 registered |-> analyze_action_source(probe.calls)]
    /\ UNCHANGED <<rt, queues, round_robin_counter, asyncChan, running, oneshot,
                   http, lastResponse, production_mode, lastExec, hist, alive>>

\* --- the request body on its way to the action
\* The body of an HTTP request: absent, present and empty, present with a byte.
HttpBodies == { None, Some(<< >>), Some(<<"x">>) }

\* axum::body::to_bytes: the bytes of the body, none for an absent body.
to_bytes(http_body) == IF http_body.some THEN http_body.val ELSE << >>

\* execute_action_optimized sets req.rawBody from the task's body.
raw_body(req_body) == IF req_body.some THEN [array_buffer |-> req_body.val] ELSE Null

BodyProbes ==
    { [kind |-> "body", done |-> FALSE, left |-> a, right |-> b] :
        a \in HttpBodies, b \in HttpBodies }

\* handler builds the RequestTask of GET /a for two requests that differ in
\* their body only, and the worker builds rawBody from each task.
ApplyBody ==
    /\ probe.kind = "body"
    /\ ~probe.done
    /\ LET with(http_body) == [Request(GET, P_a) EXCEPT !.body = to_bytes(http_body)]
           task(http_body) == handler_resolve(with(http_body), 1).task
       IN  probe' = [kind |-> "body", done |-> TRUE, left |-> probe.left,
                     right |-> probe.right,
                     left_body |-> task(probe.left).body,
                     right_body |-> task(probe.right).body,
                     left_raw |-> raw_body(task(probe.left).body),
                     right_raw |-> raw_body(task(probe.right).body)]
    /\ UNCHANGED <<rt, queues, round_robin_counter, asyncChan, running, oneshot,
                   http, lastResponse, production_mode, lastExec, hist, alive>>

\* --- the result extraction of _finish_request on its own
\* The values a script's result has under each key it may carry.
ScriptStatuses == {-1, 200, 302}
ScriptBodies == {Body("{ok:true}", << >>), Body("", << >>), Null,
                 [obj |-> "ok"], [bool |-> TRUE]}
ScriptHeaders == {[content_type |-> "text/html"], Null}
ScriptFields == {"_isResponse", "status", "body", "headers", "redirect", "error"}

ScriptResult(fields, is_resp, status, body, headers) ==
    [k \in fields |->
        CASE k = "_isResponse" -> is_resp
          [] k = "status" -> status
          [] k = "body" -> body
          [] k = "headers" -> headers
          [] k = "redirect" -> [str |-> "/to"]
          [] OTHER -> "failed"]

ScriptResults ==
    { ScriptResult(f, b, st, bd, hd) :
        f \in SUBSET ScriptFields, b \in BOOLEAN, st \in ScriptStatuses,
        bd \in ScriptBodies, hd \in ScriptHeaders }

FinishProbes ==
    { [kind |-> "finish", done |-> FALSE, result |-> r] : r \in ScriptResults }

\* _finish_request(request_id, result): the JSON sent to the dispatcher.
ApplyFinish ==
    /\ probe.kind = "finish"
    /\ ~probe.done
    /\ probe' = [kind |-> "finish", done |-> TRUE, result |-> probe.result,
                 json |-> finish_json(probe.result)]
    /\ UNCHANGED <<rt, queues, round_robin_counter, asyncChan, running, oneshot,
                   http, lastResponse, production_mode, lastExec, hist, alive>>

ProbeInputs ==
    BatchProbes \cup MatchProbes \cup ResolveProbes \cup ResponseProbes \cup FsProbes
        \cup OptionsProbes \cup AnalyzerProbes \cup BodyProbes \cup FinishProbes

InitPure ==
    /\ InitSystem
    /\ probe \in ProbeInputs

NextPure ==
    \/ ApplyBatch
    \/ ApplyMatch
    \/ ApplyResolve
    \/ ApplyResponse
    \/ FsCheck
    \/ FsRead
    \/ FsRelink
    \/ ApplyOptions
    \/ ApplyAnalyze
    \/ ApplyBody
    \/ ApplyFinish

SpecPure == InitPure /\ [][NextPure]_vars

\* ------------------------------------------------- the ShareContext map
\* Scripts on several workers call t.shareContext get, set and delete on the
\* process-global DashMap.  A call is three steps: the script calls the
\* native function, the function performs its one DashMap operation (atomic
\* for its key), the function returns to the script.
ShareKeys == {"a", "b"}

\* The values scripts pass to set.
ShareValues == { [num |-> 1], [num |-> 2], Undefined }

\* v8::json::stringify followed by to_rust_string_lossy: the JSON text of a
\* value; JSON.stringify(undefined) is undefined, whose string is "undefined".
json_stringify(v) == IF v = Undefined THEN [text |-> "undefined"] ELSE [json |-> v]

\* serde_json::from_str
from_str(json_str) == IF "json" \in DOMAIN json_str THEN Some(json_str.json) ELSE None

\* DashMap entry of a key that is not in the map.
Absent == [absent |-> TRUE]

ShareOps ==
    { [name |-> "get", key |-> k] : k \in ShareKeys }
        \cup { [name |-> "delete", key |-> k] : k \in ShareKeys }
        \cup { [name |-> "set", key |-> k, val |-> v] : k \in ShareKeys, v \in ShareValues }

IdleCall == [pc |-> "idle"]

ShareInit ==
    [kind |-> "share",
     kv |-> [k \in ShareKeys |-> Absent],
     prev_kv |-> [k \in ShareKeys |-> Absent],
     touched |-> "a",
     written |-> [k \in ShareKeys |-> [name |-> "none"]],
     call |-> [w \in Workers |-> IdleCall]]

\* share_context_set: the map after the call.
share_context_set(kv, key, val_v8) ==
    LET val == from_str(json_stringify(val_v8))
    IN  IF val.some THEN [kv EXCEPT ![key] = val.val] ELSE kv

\* share_context_delete
share_context_delete(kv, key) == [kv EXCEPT ![key] = Absent]

\* share_context_get: the value returned to the script.
share_context_get(kv, key) == IF kv[key] # Absent THEN kv[key] ELSE Null

\* Whether worker w is inside a set or delete on key k.
Writing(call, w, k) ==
    call[w].pc # "idle" /\ call[w].op.name # "get" /\ call[w].op.key = k

\* A script on worker w calls one of the native functions.
ShareCall(w) ==
    /\ probe.call[w].pc = "idle"
    /\ \E op \in ShareOps :
           probe' = [probe EXCEPT !.call[w] = [pc |-> "called", op |-> op]]
    /\ UNCHANGED <<rt, queues, round_robin_counter, asyncChan, running, oneshot,
                   http, lastResponse, production_mode, lastExec, hist, alive>>

\* The native function performs its DashMap operation.  The map orders the
\* writes of one key; written[k] is the latest of them.  For a get the step
\* records that write and whether another worker was inside a write on the
\* key (when none is, every write of the key so far has completed).
ShareEffect(w) ==
    /\ probe.call[w].pc = "called"
    /\ LET op == probe.call[w].op
           kv1 == CASE op.name = "set" -> share_context_set(probe.kv, op.key, op.val)
                    [] op.name = "delete" -> share_context_delete(probe.kv, op.key)
                    [] OTHER -> probe.kv
           done == IF op.name = "get"
                   THEN [pc |-> "effected", op |-> op,
                         ret |-> share_context_get(probe.kv, op.key),
                         last |-> probe.written[op.key],
                         quiet |-> \A v \in Workers \ {w} :
                                       ~Writing(probe.call, v, op.key)]
                   ELSE [pc |-> "effected", op |-> op]
       IN  probe' = [probe EXCEPT !.kv = kv1, !.prev_kv = probe.kv,
                                  !.touched = op.key, !.call[w] = done,
                                  !.written[op.key] = IF op.name = "get" THEN @ ELSE op]
    /\ UNCHANGED <<rt, queues, round_robin_counter, asyncChan, running, oneshot,
                   http, lastResponse, production_mode, lastExec, hist, alive>>

\* The native function returns: the operation is completed.
ShareReturn(w) ==
    /\ probe.call[w].pc = "effected"
    /\ probe' = [probe EXCEPT !.call[w] = IdleCall]
    /\ UNCHANGED <<rt, queues, round_robin_counter, asyncChan, running, oneshot,
                   http, lastResponse, production_mode, lastExec, hist, alive>>

InitShare ==
    /\ InitSystem
    /\ probe = ShareInit

NextShare ==
    \/ \E w \in Workers : ShareCall(w)
    \/ \E w \in Workers : ShareEffect(w)
    \/ \E w \in Workers : ShareReturn(w)

SpecShare == InitShare /\ [][NextShare]_vars

\* ------------------------------------------------------------- shutdown
\* The RuntimeManager owns one sender per worker queue (request_txs).  probe
\* records whether the manager still exists.
ManagerUp == [kind |-> "manager", request_txs |-> TRUE]

ManagerDown == [kind |-> "manager", request_txs |-> FALSE]

\* Whether a Resume for worker w's queue is outstanding: an op that is with
\* the executor, whose waiting task holds a clone of the worker's sender, or a
\* Resume command on the queue.
ResumeOutstanding(w) ==
    \/ \E i \in 1 .. Len(asyncChan) : asyncChan[i].worker_tx = w
    \/ \E r \in BagToSet(running) : r.worker_tx = w
    \/ \E i \in 1 .. Len(queues[w]) : queues[w][i].kind = "Resume"

\* Whether some Sender of worker w's queue exists: the manager's request_txs[w],
\* the worker_tx a live worker's TitanRuntime holds, the clone held by a task
\* that waits for an op's result.
SenderExists(w, manager) ==
    \/ manager.request_txs
    \/ \E v \in Workers : alive[v] /\ rt[v].worker_tx = w
    \/ \E i \in 1 .. Len(asyncChan) : asyncChan[i].worker_tx = w
    \/ \E r \in BagToSet(running) : r.worker_tx = w

\* rx.recv() returns Err: the queue is empty and no Sender exists.
RecvFails(w) == queues[w] = << >> /\ ~SenderExists(w, probe)

\* The server ends and drops the RuntimeManager, once no handler holds it.
ManagerDrop ==
    /\ probe = ManagerUp
    /\ \A h \in HttpIds : http[h].pc \in {"idle", "done"}
    /\ probe' = ManagerDown
    /\ UNCHANGED <<rt, queues, round_robin_counter, asyncChan, running, oneshot,
                   http, lastResponse, production_mode, lastExec, hist, alive>>

\* One turn of a worker thread's loop: rx.recv() hands over the next command,
\* which is handled to its end, or fails, and the thread leaves the loop.
WorkerLoop(w) ==
    /\ alive[w]
    /\ IF queues[w] # << >>
       THEN IF Head(queues[w]).kind = "Request"
            THEN WorkerRequest(w)
            ELSE WorkerResume(w)
       ELSE /\ RecvFails(w)
            /\ alive' = [alive EXCEPT ![w] = FALSE]
            /\ UNCHANGED <<rt, queues, round_robin_counter, asyncChan, running,
                           oneshot, http, lastResponse, production_mode, lastExec,
                           hist, probe>>

\* handler runs only while the server, and with it the manager, exists.
ServerHandler(h) == probe = ManagerUp /\ Handler(h, CrashRequests)

InitShutdown ==
    /\ InitSystem
    /\ probe = ManagerUp

NextShutdown ==
    \/ \E h \in HttpIds : ServerHandler(h)
    \/ \E h \in HttpIds : ExecuteBlockingSend(h)
    \/ \E h \in HttpIds : HandlerRespond(h)
    \/ \E w \in Workers : WorkerLoop(w)
    \/ AsyncRecv
    \/ AsyncComplete
    \/ ManagerDrop

SpecShutdown == InitShutdown /\ [][NextShutdown]_vars

\* ------------------------------------------------- the worker loop, in steps
\* The worker loop with the handling of a command as a stretch of time: recv
\* takes the command off the queue, and the command is in progress until its
\* handler (handle_new_request, handle_resume) returns.  probe.in_progress[w]
\* holds the commands worker w has taken and not yet handled to their end.
LoopInit == [kind |-> "loop", in_progress |-> [w \in Workers |-> << >>]]

\* A loop that takes the next command while one is still in progress.
LoopRecv_overlapping(w) ==
    /\ alive[w]
    /\ queues[w] # << >>
    /\ Len(probe.in_progress[w]) < MaxRequests
    /\ probe' = [probe EXCEPT !.in_progress[w] = Append(@, Head(queues[w]))]
    /\ queues' = [queues EXCEPT ![w] = Tail(@)]
    /\ UNCHANGED <<rt, round_robin_counter, asyncChan, running, oneshot, http,
                   lastResponse, production_mode, lastExec, hist, alive>>

\* rx.recv() in the loop: the thread is back at the head of its loop, so the
\* previous command's handler has returned.
LoopRecv(w) ==
    /\ alive[w]
    /\ probe.in_progress[w] = << >>
    /\ queues[w] # << >>
    /\ probe' = [probe EXCEPT !.in_progress[w] = Append(@, Head(queues[w]))]
    /\ queues' = [queues EXCEPT ![w] = Tail(@)]
    /\ UNCHANGED <<rt, round_robin_counter, asyncChan, running, oneshot, http,
                   lastResponse, production_mode, lastExec, hist, alive>>

\* The handler of the command in progress runs to its end and returns.
LoopHandle(w) ==
    /\ alive[w]
    /\ probe.in_progress[w] # << >>
    /\ LET cmd == Head(probe.in_progress[w])
       IN  IF cmd.kind = "Request"
           THEN HandleRequest(w, cmd.task)
           ELSE HandleResume(w, cmd)
    /\ probe' = [probe EXCEPT !.in_progress[w] = Tail(@)]
    /\ UNCHANGED queues

InitLoop ==
    /\ InitSystem
    /\ probe = LoopInit

NextLoop ==
    \/ \E h \in HttpIds : Handler(h, CrashRequests)
    \/ \E h \in HttpIds : ExecuteBlockingSend(h)
    \/ \E h \in HttpIds : HandlerRespond(h)
    \/ \E w \in Workers : LoopRecv(w)
    \/ \E w \in Workers : LoopHandle(w)
    \/ AsyncRecv
    \/ AsyncComplete

SpecLoop == InitLoop /\ [][NextLoop]_vars

\* ------------------------------------------------------ abandoned requests
\* The client goes away while handler awaits the worker's result: the handler
\* future is dropped, and with it the Receiver of the request's oneshot.
HandlerCancel(h) ==
    /\ http[h].pc = "awaiting"
    /\ http' = [http EXCEPT ![h] = DoneHttp]
    /\ oneshot' = [oneshot EXCEPT ![h] = Closed]
    /\ UNCHANGED <<rt, queues, round_robin_counter, asyncChan, running,
                   lastResponse, production_mode, lastExec, hist, alive, probe>>

\* The system with clients that may go away; its requests are for an action
\* that finishes after one drift, or at once when the executor channel is full.
NextCancel ==
    \/ \E h \in HttpIds : Handler(h, CrashRequests)
    \/ \E h \in HttpIds : ExecuteBlockingSend(h)
    \/ \E h \in HttpIds : HandlerRespond(h)
    \/ \E h \in HttpIds : HandlerCancel(h)
    \/ \E w \in Workers : WorkerRequest(w)
    \/ \E w \in Workers : WorkerResume(w)
    \/ AsyncRecv
    \/ AsyncComplete

SpecCancel == Init /\ [][NextCancel]_vars

\* =============================================================== claims
\* The action a request resolves to, through its exact route or through a
\* dynamic route; None when it resolves to no action.
ResolvedAction(req) ==
    LET res == handler_resolve(req, 0)
    IN  IF res.kind = "dispatch" THEN Some(res.task.action_name) ELSE None

\* Nothing is left to run: no command queued, no op with the executor, no
\* execute call blocked.
Quiescent ==
    /\ \A w \in Workers : queues[w] = << >>
    /\ asyncChan = << >>
    /\ running = EmptyBag
    /\ \A h \in HttpIds : http[h].pc # "blocked"

\* C1: every value _drift_call serves from the replay cache to an execution of
\* a request is the result of the op that this request issues at that call
\* position, never the result of another request's op (stated for runs in
\* which the executor channel accepted every op).
C1_ReplayValuesOwn ==
    (\A g \in HttpIds : hist[g].rejected = 0) =>
    \A i \in 1 .. Len(lastExec.log.cached) :
        lastExec.log.cached[i].val = run_async_operation(lastExec.log.cached[i].op)

\* C2: a request that suspended on a drift has received its WorkerResult once
\* the executor has completed every op it received and every command was
\* handled (all actions finish after finitely many drifts; stated for runs in
\* which the executor channel accepted every op).
C2_SuspendedGetsResult ==
    (Quiescent /\ \A g \in HttpIds : hist[g].rejected = 0) =>
        \A h \in HttpIds :
            (http[h].pc = "awaiting" /\ hist[h].susp > 0) => oneshot[h].some

\* C3: a request that resolves, by an exact or a dynamic route, to an action
\* with a registered static response R is answered with R.body and
\* R.content_type.
C3_StaticResponseServed ==
    LET a == ResolvedAction(lastResponse.req)
    IN  (lastResponse.h # 0 /\ a.some /\ fast_paths_get(a.val).some) =>
            /\ lastResponse.resp.body = fast_paths_get(a.val).val.body
            /\ lastResponse.resp.content_type = fast_paths_get(a.val).val.content_type

\* The exact route of the request is an action with a registered static response.
ExactStatic(method, path) ==
    LET route == lookup_exact(method, path)
    IN  /\ route.some
        /\ route.val.type = "action"
        /\ as_str(route.val.value).some
        /\ fast_paths_get(route.val.value.str).some

\* C4: a request whose exact route is an action with a registered static
\* response is answered with that response; no RequestTask for it is on a
\* worker queue or held by a blocked execute, no handler awaits a worker for
\* it, and its body was not read.
C4_StaticActionNoDispatch ==
    /\ \A w \in Workers : \A i \in 1 .. Len(queues[w]) :
           queues[w][i].kind = "Request" =>
               ~ExactStatic(queues[w][i].task.method, queues[w][i].task.path)
    /\ \A h \in HttpIds :
           http[h].pc \in {"awaiting", "blocked"} =>
               ~ExactStatic(http[h].req.val.method, http[h].req.val.path)
    /\ (lastResponse.h # 0
        /\ ExactStatic(lastResponse.req.method, lastResponse.req.path)) =>
           /\ ~lastResponse.dispatched
           /\ ~lastResponse.body_read
           /\ LET R == fast_paths_get(ResolvedAction(lastResponse.req).val).val
              IN  /\ lastResponse.resp.body = R.body
                  /\ lastResponse.resp.content_type = R.content_type
                  /\ lastResponse.resp.status = R.status

C4_Witness ==
    /\ lastResponse.h # 0
    /\ ExactStatic(lastResponse.req.method, lastResponse.req.path)
    /\ lastResponse.resp.body = HelloBody
    /\ \E h \in HttpIds : http[h].pc = "awaiting"

\* C5: when a request whose action performs k drifts has finished (and the
\* executor channel accepted every op it sent), its executions have sent
\* exactly k AsyncOpRequests and suspended exactly k times.
C5_ExactlyKOps ==
    \A h \in HttpIds :
        (/\ oneshot[h].some
         /\ "error" \notin DOMAIN oneshot[h].val.json
         /\ \A g \in HttpIds : hist[g].rejected = 0) =>
            LET k == ScriptDrifts(ResolvedAction(http[h].req.val).val)
            IN  hist[h].sent = k /\ hist[h].susp = k

\* C6: in every execution of a request (first run or replay) the i-th
\* _drift_call is allocated drift id start + i, where start is the worker's
\* drift counter recorded in request_start_counters when the request was
\* dispatched.
C6_DriftIdsFromStart ==
    /\ lastExec.origin # 0 =>
           /\ lastExec.start = hist[lastExec.origin].start
           /\ lastExec.log.ids =
                  [i \in 1 .. Len(lastExec.log.ids) |-> lastExec.start + i]
    /\ \A w \in Workers : \A id \in DOMAIN rt[w].active_requests :
           /\ MapHas(rt[w].request_start_counters, id)
           /\ rt[w].request_start_counters[id] =
                  hist[rt[w].active_requests[id].origin].start

C6_Witness ==
    /\ lastExec.origin # 0
    /\ lastExec.resumed
    /\ lastExec.finished
    /\ lastExec.start > 0
    /\ Len(lastExec.log.ids) = MaxDrifts

\* C7: after handle_new_request has run a request whose action finished
\* during this first execution, neither active_requests nor pending_requests
\* holds the request's id.
C7_SyncCompletionLeavesNothing ==
    (lastExec.origin # 0 /\ ~lastExec.resumed /\ lastExec.finished) =>
        /\ ~MapHas(rt[lastExec.worker].active_requests, lastExec.request_id)
        /\ ~MapHas(rt[lastExec.worker].pending_requests, lastExec.request_id)

C7_Witness ==
    /\ lastExec.origin # 0
    /\ ~lastExec.resumed
    /\ lastExec.finished
    /\ rt[lastExec.worker].active_requests # EmptyMap

\* C8: between commands, the request ids in active_requests are exactly the
\* request ids in pending_requests, on every worker.
C8_ActiveEqualsPending ==
    \A w \in Workers :
        DOMAIN rt[w].active_requests = DOMAIN rt[w].pending_requests

C8_Witness ==
    \E w \in Workers :
        /\ Cardinality(DOMAIN rt[w].active_requests) = 1
        /\ lastExec.worker = w /\ lastExec.resumed /\ lastExec.finished

\* C9: no operation lowers a worker's request_counter or drift_counter.
C9_CountersMonotonic ==
    [][\A w \in Workers :
          /\ rt'[w].request_counter >= rt[w].request_counter
          /\ rt'[w].drift_counter >= rt[w].drift_counter]_vars

\* C10: every Resume command is on the queue of the worker that the request
\* which issued the op was dispatched to, and every execution of a request
\* runs on that worker.
C10_ResumeOnOwnWorker ==
    /\ \A w \in Workers : \A i \in 1 .. Len(queues[w]) :
           queues[w][i].kind = "Resume" =>
               hist[queues[w][i].result.result.data.origin].worker = w
    /\ lastExec.origin # 0 => lastExec.worker = hist[lastExec.origin].worker

C10_Witness ==
    /\ lastExec.origin # 0 /\ lastExec.resumed /\ lastExec.worker = 1
    /\ \E i \in 1 .. Len(queues[0]) : queues[0][i].kind = "Resume"

\* C11: a batch _drift_call over an array of n elements allocates one drift
\* id and sends one AsyncOpRequest, and the value the script gets is an array
\* of n entries whose entry i is the result of element i.
C11_BatchResultPerOp ==
    (probe.kind = "batch" /\ probe.done) =>
        LET items == probe.arg.array
        IN  /\ probe.ids = <<1>>
            /\ probe.drift_counter = 1
            /\ probe.sent = 1
            /\ "array" \in DOMAIN probe.value
            /\ Len(probe.value.array) = Len(items)
            /\ \A i \in 1 .. Len(items) :
                   parse_async_op(items[i]).some =>
                       probe.value.array[i] = run_async_operation(items[i])

\* C12: the WorkerResult _finish_request delivers for a request carries one
\* timing entry per Resume processed for the request's own drifts, in
\* processing order, labelled drift_error for a result with a top-level error
\* key and drift otherwise (stated for runs in which the executor channel
\* accepted every op).
C12_TimingsPerOwnResume ==
    (/\ lastExec.origin # 0
     /\ lastExec.finished
     /\ \A g \in HttpIds : hist[g].rejected = 0) =>
        lastExec.timings = hist[lastExec.origin].own

\* The places on worker queues that hold the RequestTask of HTTP request h.
QueuedFor(h) ==
    { <<w, i>> \in Workers \X (1 .. channel_capacity) :
        /\ i <= Len(queues[w])
        /\ queues[w][i].kind = "Request"
        /\ queues[w][i].task.origin = h }

\* C13: execute advances the round-robin counter by one, starts at the
\* previous counter mod N and enqueues the task on the first worker in cyclic
\* order whose queue is not full (on none when all are full); while handler
\* waits, the task is in exactly one place: on one queue, held by the blocking
\* send, or taken by one worker.
C13_ExecutePlacesOnce ==
    /\ [](\A h \in HttpIds :
            http[h].pc \in {"awaiting", "blocked"} =>
                Cardinality(QueuedFor(h))
                  + (IF http[h].pc = "blocked" THEN 1 ELSE 0)
                  + (IF hist[h].worker # -1 THEN 1 ELSE 0) = 1)
    /\ [][\A h \in HttpIds :
            (http[h].pc = "idle" /\ http'[h].pc \in {"awaiting", "blocked"}) =>
                LET start == round_robin_counter % NumWorkers
                    At(k) == (start + k) % NumWorkers
                    Free(w) == Len(queues[w]) < channel_capacity
                IN  /\ round_robin_counter' = round_robin_counter + 1
                    /\ http'[h].start_idx = start
                    /\ IF \E k \in 0 .. (NumWorkers - 1) : Free(At(k))
                       THEN LET k == CHOOSE k \in 0 .. (NumWorkers - 1) :
                                        /\ Free(At(k))
                                        /\ \A j \in 0 .. (k - 1) : ~Free(At(j))
                                w == At(k)
                            IN  /\ http'[h].pc = "awaiting"
                                /\ Len(queues'[w]) = Len(queues[w]) + 1
                                /\ SubSeq(queues'[w], 1, Len(queues[w])) = queues[w]
                                /\ queues'[w][Len(queues'[w])].kind = "Request"
                                /\ queues'[w][Len(queues'[w])].task.origin = h
                                /\ \A v \in Workers \ {w} : queues'[v] = queues[v]
                       ELSE /\ http'[h].pc = "blocked"
                            /\ queues' = queues]_vars

C13_Witness ==
    \E h \in HttpIds :
        /\ http[h].pc = "awaiting"
        /\ <<(http[h].start_idx + 1) % NumWorkers, 1>> \in QueuedFor(h)

\* C14: when all queues are full execute blocks on a send to the worker it
\* selected first: the send puts the task at the end of that worker's queue
\* and of no other, only that worker takes it from there, and, the workers
\* running, a blocked task is eventually taken and executed by that worker.
C14_BlockingSendOnStartWorker ==
    /\ [][\A h \in HttpIds :
            (http[h].pc = "blocked" /\ http'[h].pc = "awaiting") =>
                queues' = [queues EXCEPT ![http[h].start_idx] =
                              Append(@, http[h].cmd.val)]]_vars
    /\ [][\A h \in HttpIds :
            (hist[h].blocking /\ ~hist'[h].blocking) =>
                /\ hist'[h].worker = http[h].start_idx
                /\ lastExec'.origin = h]_vars
    /\ \A h \in HttpIds :
            (http[h].pc = "blocked") ~> (hist[h].worker = http[h].start_idx)

C14_Witness ==
    \E h \in HttpIds :
        /\ hist[h].blocking
        /\ http[h].pc = "awaiting"
        /\ QueuedFor(h) = {<<http[h].start_idx, 1>>}

\* The response handler gives for the error e of execute.
ErrorResponse(resp, e) ==
    /\ resp.status = 500
    /\ resp.content_type = "application/json"
    /\ resp.body = [json |-> [error |-> e]]

\* C15: when a try_send of execute meets a disconnected worker before it
\* finds room, or the blocking send fails, no queue changes (the task is put
\* on no other worker), the request is answered 500 with {error: message},
\* and its task is never on a queue or with a worker.
C15_DisconnectedIs500 ==
    /\ [][\A h \in HttpIds :
            LET start == round_robin_counter % NumWorkers
                At(k) == (start + k) % NumWorkers
                Free(w) == Len(queues[w]) < channel_capacity
                DisconnectedFirst ==
                    \E k \in 0 .. (NumWorkers - 1) :
                        /\ ~alive[At(k)]
                        /\ \A j \in 0 .. (k - 1) : alive[At(j)] /\ ~Free(At(j))
            IN  /\ (/\ http[h].pc = "idle" /\ http'[h].pc # "idle"
                    /\ round_robin_counter' # round_robin_counter
                    /\ DisconnectedFirst) =>
                       /\ queues' = queues
                       /\ http'[h].pc = "done"
                       /\ lastResponse'.h = h
                       /\ ErrorResponse(lastResponse'.resp, WORKER_DISCONNECTED)
                /\ (/\ http[h].pc = "blocked" /\ http'[h].pc # "blocked"
                    /\ ~alive[http[h].start_idx]) =>
                       /\ queues' = queues
                       /\ http'[h].pc = "done"
                       /\ lastResponse'.h = h
                       /\ ErrorResponse(lastResponse'.resp, SEND_ERROR)]_vars
    /\ []((/\ lastResponse.h # 0
           /\ \/ ErrorResponse(lastResponse.resp, WORKER_DISCONNECTED)
              \/ ErrorResponse(lastResponse.resp, SEND_ERROR)) =>
              /\ QueuedFor(lastResponse.h) = {}
              /\ hist[lastResponse.h].worker = -1)

C15_Witness ==
    /\ lastResponse.h # 0
    /\ ErrorResponse(lastResponse.resp, WORKER_DISCONNECTED)
    /\ \E w \in Workers : alive[w] /\ queues[w] = << >>

\* C16: handler answers 404 exactly when the route table has no entry under
\* "METHOD:PATH" nor under the bare path, and no dynamic route matches.
C16_NotFoundIffNoRoute ==
    lastResponse.h # 0 =>
        LET req == lastResponse.req
            exact == \/ routes_get(StrictKey(req.method, req.path)).some
                     \/ routes_get(req.path).some
            dyn == match_dynamic_route(req.method, req.path, DynamicRoutes)
        IN  (lastResponse.resp.status = 404) <=> (~exact /\ ~dyn.some)

\* --- what the matcher is expected to compute, stated segment by segment
IsPlaceholder(pat) == pat # << >> /\ Head(pat) = ":"

\* The position of the first "<" of a placeholder's text, 0 if it has none.
TypeMark(inner) ==
    IF \E i \in 1 .. Len(inner) : inner[i] = "<"
    THEN CHOOSE i \in 1 .. Len(inner) :
             inner[i] = "<" /\ \A k \in 1 .. (i - 1) : inner[k] # "<"
    ELSE 0

PlaceholderName(pat) ==
    LET inner == Tail(pat)
    IN  IF TypeMark(inner) = 0 THEN inner ELSE SubSeq(inner, 1, TypeMark(inner) - 1)

PlaceholderType(pat) ==
    LET inner == Tail(pat)
    IN  IF TypeMark(inner) = 0 THEN STRING_TY
        ELSE trim_end(SubSeq(inner, TypeMark(inner) + 1, Len(inner)), ">")

\* The text of a signed 64-bit integer short enough not to overflow.
IsI64Literal(val) ==
    \E sign \in {<< >>, <<"+">>, <<"-">>} :
        /\ Len(val) > Len(sign)
        /\ SubSeq(val, 1, Len(sign)) = sign
        /\ \A i \in (Len(sign) + 1) .. Len(val) : val[i] \in Digits

SegmentMatches(pat, val) ==
    IF IsPlaceholder(pat)
    THEN CASE PlaceholderType(pat) = NUMBER_TY -> IsI64Literal(val)
           [] PlaceholderType(pat) = STRING_TY -> TRUE
           [] OTHER -> FALSE
    ELSE pat = val

Segments(s) == split(trim_matches(s), "/")

RouteQualifies(route, method, path) ==
    /\ route.method = method
    /\ Len(Segments(route.pattern)) = Len(Segments(path))
    /\ \A i \in 1 .. Len(Segments(path)) :
           SegmentMatches(Segments(route.pattern)[i], Segments(path)[i])

\* The bindings of a qualifying route: each placeholder's name with the path
\* segment at its position (the last position, for a name used twice).
RouteBindings(route, path) ==
    LET ps == Segments(route.pattern)
        vs == Segments(path)
        at(name) == { i \in 1 .. Len(ps) :
                        IsPlaceholder(ps[i]) /\ PlaceholderName(ps[i]) = name }
        last(name) == CHOOSE i \in at(name) : \A j \in at(name) : j <= i
    IN  [name \in { PlaceholderName(ps[i]) :
                      i \in { j \in 1 .. Len(ps) : IsPlaceholder(ps[j]) } } |->
            vs[last(name)]]

\* C17: match_dynamic_route returns the action and the bindings of the first
\* route of the list that has the request's method, as many segments as the
\* path and only matching segments; None when there is no such route; and the
\* bindings are those of that route alone.
C17_FirstQualifyingRoute ==
    (probe.kind = "match" /\ probe.done) =>
        LET q == { i \in 1 .. Len(probe.routes) :
                     RouteQualifies(probe.routes[i], probe.method, probe.path) }
        IN  IF q = {}
            THEN probe.result = None
            ELSE LET first == CHOOSE i \in q : \A j \in q : i <= j
                     route == probe.routes[first]
                 IN  probe.result =
                         Some([action |-> route.action,
                               params |-> RouteBindings(route, probe.path)])

\* Two routes qualify, and an earlier route has bound a name before failing.
C17_Witness ==
    /\ probe.kind = "match" /\ probe.done
    /\ probe.routes = <<R_pair, R_default>>
    /\ probe.method = GET
    /\ probe.path = <<"/", "u", "/", "x">>
    /\ probe.result.some

\* C18: against /u/:id<number> a two-segment path /u/v matches exactly when v
\* is the text of a signed 64-bit integer, and then id is bound to v; GET /u/x
\* is answered 404, GET /u/7 is dispatched with params.id = "7".
C18_NumberPlaceholder ==
    /\ (/\ probe.kind = "match" /\ probe.done
        /\ probe.routes = <<R_number>>
        /\ probe.method = GET
        /\ Len(Segments(probe.path)) = 2
        /\ Segments(probe.path)[1] = <<"u">>) =>
           LET v == Segments(probe.path)[2]
           IN  /\ probe.result.some <=> IsI64Literal(v)
               /\ probe.result.some =>
                      probe.result.val.params = MapInsert(EmptyMap, <<"i", "d">>, v)
    /\ (probe.kind = "resolve" /\ probe.done /\ probe.req = Request(GET, P_ux)) =>
           /\ ~probe.phase1.some
           /\ probe.resolve.kind = "response"
           /\ probe.resolve.resp.status = 404
    /\ (probe.kind = "resolve" /\ probe.done /\ probe.req = Request(GET, P_u7)) =>
           /\ ~probe.phase1.some
           /\ probe.resolve.kind = "dispatch"
           /\ probe.resolve.task.params = MapInsert(EmptyMap, <<"i", "d">>, <<"7">>)

C18_Witness ==
    /\ probe.kind = "match" /\ probe.done
    /\ probe.routes = <<R_number>>
    /\ probe.method = GET
    /\ probe.path = <<"/", "u", "/", "7">>
    /\ probe.result.some

\* C19: against a route whose placeholders are all typed string, explicitly
\* or by default, a path with the route's method, segment count and literal
\* segments matches exactly when every segment at a placeholder is non-empty.
C19_StringPlaceholderNonEmpty ==
    (/\ probe.kind = "match" /\ probe.done
     /\ Len(probe.routes) = 1
     /\ probe.routes[1] \in {R_default, R_string, R_any, R_middle}
     /\ probe.method = probe.routes[1].method
     /\ Len(Segments(probe.path)) = Len(Segments(probe.routes[1].pattern))) =>
        LET ps == Segments(probe.routes[1].pattern)
            vs == Segments(probe.path)
        IN  (\A i \in 1 .. Len(ps) : ~IsPlaceholder(ps[i]) => ps[i] = vs[i]) =>
                (probe.result.some <=>
                    \A i \in 1 .. Len(ps) : IsPlaceholder(ps[i]) => vs[i] # << >>)

\* C20: when the route table has an entry under "METHOD:PATH" and one under
\* the bare path, handler uses the former; and when the exact route is an
\* action and a dynamic route matches the request too, handler serves the exact
\* route's action (its static response, or a dispatch without parameters).
C20_ExactRoutePreferred ==
    (probe.kind = "resolve" /\ probe.done) =>
        LET req == probe.req
            strict == routes_get(StrictKey(req.method, req.path))
            bare == routes_get(req.path)
            dyn == match_dynamic_route(req.method, req.path, DynamicRoutes)
            e == probe.exact
        IN  /\ (strict.some /\ bare.some) =>
                   /\ e = strict
                   /\ strict.val.type = "json" =>
                          /\ probe.phase1.some
                          /\ probe.phase1.val.body = [json |-> strict.val.value]
            /\ (e.some /\ e.val.type = "action" /\ dyn.some) =>
                   IF fast_paths_get(e.val.value.str).some
                   THEN /\ probe.phase1.some
                        /\ probe.phase1.val.body = fast_paths_get(e.val.value.str).val.body
                   ELSE /\ ~probe.phase1.some
                        /\ probe.resolve.kind = "dispatch"
                        /\ probe.resolve.task.action_name = e.val.value.str
                        /\ probe.resolve.task.params = EmptyMap

C20_Witness ==
    /\ probe.kind = "resolve" /\ probe.done
    /\ \/ /\ probe.req = Request(GET, P_c)
          /\ routes_get(P_c).some
          /\ probe.exact.val.key = StrictKey(GET, P_c)
       \/ /\ probe.req = Request(GET, P_u1)
          /\ match_dynamic_route(GET, P_u1, DynamicRoutes).some
          /\ probe.resolve.kind = "dispatch"
          /\ probe.resolve.task.action_name = "chain"

\* C21: a request whose exact route (under "METHOD:PATH", else under the bare
\* path) is a json or text route with a precomputed response is never given to
\* a worker, and is answered 200 with the precomputed body and content type:
\* the serialized value as application/json, or the text as text/plain.
C21_PrecomputedServed ==
    LET Exact(req) ==
            IF routes_get(StrictKey(req.method, req.path)).some
            THEN routes_get(StrictKey(req.method, req.path))
            ELSE routes_get(req.path)
        Reply(req) == /\ Exact(req).some
                      /\ Exact(req).val.type \in {"json", "text"}
                      /\ precomputed_get(Exact(req).val.key).some
    IN  /\ \A w \in Workers : \A i \in 1 .. Len(queues[w]) :
               queues[w][i].kind = "Request" =>
                   ~Reply([method |-> queues[w][i].task.method,
                           path |-> queues[w][i].task.path])
        /\ \A h \in HttpIds :
               http[h].pc \in {"awaiting", "blocked"} => ~Reply(http[h].req.val)
        /\ (lastResponse.h # 0 /\ Reply(lastResponse.req)) =>
               LET r == Exact(lastResponse.req).val
               IN  /\ ~lastResponse.dispatched
                   /\ lastResponse.resp.status = 200
                   /\ r.type = "json" =>
                          /\ lastResponse.resp.body = [json |-> r.value]
                          /\ lastResponse.resp.content_type = "application/json"
                   /\ r.type = "text" =>
                          /\ lastResponse.resp.body = Body(r.value.str, << >>)
                          /\ lastResponse.resp.content_type = TEXT_PLAIN

C21_Witness ==
    /\ lastResponse.h # 0
    /\ lastResponse.req = Request(GET, P_c)
    /\ precomputed_get(StrictKey(GET, P_c)).some
    /\ lastResponse.resp.body = [json |-> [obj |-> "{a:1}"]]
    /\ \E h \in HttpIds : http[h].pc = "awaiting"

\* C22: a worker result with a top-level error key is answered 500 with that
\* JSON as the body, whatever its _isResponse, status and redirect fields are.
C22_ErrorKeyIs500 ==
    (probe.kind = "response" /\ probe.done /\ "error" \in DOMAIN probe.result_json) =>
        /\ probe.resp.status = 500
        /\ probe.resp.content_type = "application/json"
        /\ probe.resp.body = [json |-> probe.result_json]
        /\ probe.resp.location = ""

C22_Witness ==
    /\ probe.kind = "response" /\ probe.done
    /\ DOMAIN probe.result_json = {"error", "_isResponse", "status", "redirect"}
    /\ probe.result_json._isResponse = TRUE
    /\ probe.result_json.status = 301
    /\ probe.result_json.redirect = [str |-> "/to"]
    /\ probe.resp.status = 500

C24_ExceptionIsActionError ==
    (lastExec.thrown \notin {"none", SUSPEND}) =>
           LET o == lastExec.origin
               r == rt[lastExec.worker]
           IN  /\ ~MapHas(r.pending_requests, lastExec.request_id)
               /\ ~MapHas(r.active_requests, lastExec.request_id)
               /\ \/ /\ oneshot[o].some
                     /\ oneshot[o].val.json = [error |-> lastExec.thrown]
                     /\ oneshot[o].val.timings = << >>
                  \/ /\ http[o].pc = "done"
                     /\ lastResponse.h = o =>
                            ErrorResponse(lastResponse.resp, lastExec.thrown)

\* C25: when the canonical form of project_root.join(p) does not exist or is
\* not under the canonical project root, FsRead gives an error and reads no
\* file; when the check passes, the file read is the file the check resolved.
C25_FsReadConfined ==
    (probe.kind = "fs" /\ probe.pc = "done") =>
        /\ (~probe.checked.some \/ ~starts_with(probe.checked.val, PROJECT_ROOT)) =>
               /\ "error" \in DOMAIN probe.result
               /\ ~probe.read
        /\ (probe.safe /\ "data" \in DOMAIN probe.result) =>
               probe.result.data = probe.checked.val

\* C26: the status option of an analyzed response call is clamped into
\* 100..599: 100 for an integer below 100, 599 for one above 599, the integer
\* itself inside the range, 200 when the option is absent.
C26_StatusClamped ==
    (probe.kind = "options" /\ probe.done /\ "obj" \in DOMAIN probe.val) =>
        IF "status" \in DOMAIN probe.val.obj
        THEN LET n == probe.val.obj.status
             IN  probe.options.status =
                     IF n < 100 THEN 100 ELSE IF n > 599 THEN 599 ELSE n
        ELSE probe.options.status = 200

\* C27: the analyzer registers a response for a file only if every response
\* call of the file has a body argument, no spread among its body and options
\* arguments, statically known body and options, a body of the method's type,
\* and all calls give the registered response.
C27_RegisteredOnlyIfAllStatic ==
    (probe.kind = "analyze" /\ probe.done /\ probe.registered.some) =>
        \A i \in 1 .. Len(probe.calls) :
            LET call == probe.calls[i]
                args == call.arguments
            IN  /\ args # << >>
                /\ \A k \in 1 .. Len(args) : k <= 2 => ~args[k].spread /\ args[k].static.some
                /\ call.method \in {"text", "html"} => "str" \in DOMAIN args[1].static.val
                /\ LET one == analyze_action_source(<<call>>)
                   IN  one.some /\ one.val = probe.registered.val

\* C28: two requests that differ in their body (absent, empty, non-empty)
\* give RequestTasks with different bodies, and actions different rawBody.
C28_BodyDistinctionKept ==
    (probe.kind = "body" /\ probe.done /\ probe.left # probe.right) =>
        /\ probe.left_body # probe.right_body
        /\ probe.left_raw # probe.right_raw

\* C29: in production mode no response of handler carries a Server-Timing
\* header; in non-production mode the response of a dispatched request for
\* which the worker processed at least one Resume carries a Server-Timing
\* header with one entry per Resume, in order.
C29_ServerTiming ==
    lastResponse.h # 0 =>
        /\ production_mode => lastResponse.resp.server_timing = << >>
        /\ (~production_mode /\ lastResponse.dispatched
            /\ hist[lastResponse.h].own # << >>) =>
               lastResponse.resp.server_timing = hist[lastResponse.h].own

\* C30: a get(k) that runs while no other worker is inside a set or delete on
\* k returns the value of the last completed set(k, v) (undefined reads back
\* as null), and null when k was never set or the last completed write on k
\* was a delete; and an operation on one key leaves the other keys' values.
C30_GetSeesLastWrite ==
    probe.kind = "share" =>
        /\ \A w \in Workers :
               (/\ probe.call[w].pc = "effected"
                /\ probe.call[w].op.name = "get"
                /\ probe.call[w].quiet) =>
                   probe.call[w].ret =
                       IF probe.call[w].last.name = "set"
                          /\ probe.call[w].last.val # Undefined
                       THEN probe.call[w].last.val
                       ELSE Null
        /\ \A k \in ShareKeys \ {probe.touched} : probe.kv[k] = probe.prev_kv[k]

\* C31: once the manager's senders are dropped and no Resume is outstanding
\* for a worker, the worker's channel is closed: with its queue drained,
\* recv fails, and the worker thread leaves its loop.
C31_WorkerLoopEnds ==
    \A w \in Workers :
        (/\ probe = ManagerDown
         /\ alive[w]
         /\ ~ResumeOutstanding(w)
         /\ queues[w] = << >>) => RecvFails(w)

\* C32: on every worker at most one command is in progress at any time, and
\* while one is in progress the commands behind it stay on the queue: the
\* next command is taken only after the handler of the current one returned.
C32_OneExecutionPerWorker ==
    probe.kind = "loop" =>
        \A w \in Workers : Len(probe.in_progress[w]) <= 1

\* A command is in progress on a worker while another waits on its queue.
C32_Witness ==
    /\ probe.kind = "loop"
    /\ \E w \in Workers : probe.in_progress[w] # << >> /\ queues[w] # << >>

\* C33: whenever a worker handles Resume{drift_id, result}, the result is in
\* completed_drifts[drift_id] afterwards, and if the replay it triggers
\* allocates drift_id in a _drift_call, that call is served from the cache and
\* returns exactly result.
C33_ResumeStoredBeforeReplay ==
    [][\A w \in Workers :
          WorkerResume(w) =>
              LET cmd == Head(queues[w])
                  log == lastExec'.log
              IN  /\ MapHas(rt'[w].completed_drifts, cmd.drift_id)
                  /\ rt'[w].completed_drifts[cmd.drift_id] = cmd.result.result
                  /\ \A i \in 1 .. Len(log.ids) :
                        log.ids[i] = cmd.drift_id =>
                            \E j \in 1 .. Len(log.cached) :
                                /\ log.cached[j].id = cmd.drift_id
                                /\ log.cached[j].ret = cmd.result.result]_vars

\* A replay allocated the id of the Resume that triggered it and served the
\* call from the cache.
C33_Witness ==
    /\ lastExec.resumed
    /\ lastExec.log.cached # << >>
    /\ \E w \in Workers, j \in 1 .. Len(lastExec.log.cached) :
          /\ lastExec.worker = w
          /\ MapHas(rt[w].completed_drifts, lastExec.log.cached[j].id)

\* C34: an execution whose action returns after _finish_request leaves no
\* entry for its request in pending_requests, request_timings, active_requests
\* and request_start_counters, whether the response was delivered or the
\* Receiver of response_tx had been dropped; the failed send raises nothing
\* (the execution ends without a pending exception).
C34_AbandonedRequestCleaned ==
    (lastExec.origin # 0 /\ lastExec.dropped /\ ~lastExec.suspended) =>
        LET r == rt[lastExec.worker]
            id == lastExec.request_id
        IN  /\ lastExec.thrown = "none"
            /\ ~MapHas(r.pending_requests, id)
            /\ ~MapHas(r.request_timings, id)
            /\ ~MapHas(r.active_requests, id)
            /\ ~MapHas(r.request_start_counters, id)
            /\ oneshot[lastExec.origin] = Closed

\* A replay of a request whose client went away has finished.
C34_Witness ==
    /\ lastExec.origin # 0
    /\ lastExec.dropped
    /\ lastExec.resumed
    /\ lastExec.thrown = "none"

\* The async ops of worker w that are outstanding: sent to the executor (on
\* its channel or running) or done with their Resume still on the queue; each
\* with its drift_id, and with the origin tag of the request that issued it.
OutstandingOps(w) ==
    { [drift_id |-> asyncChan[i].drift_id, op |-> asyncChan[i].op,
       place |-> "channel", idx |-> i]
        : i \in { j \in 1 .. Len(asyncChan) : asyncChan[j].worker_tx = w } }
    \cup UNION { { [drift_id |-> r.drift_id, op |-> r.op, place |-> "running", idx |-> k]
                     : k \in 1 .. CopiesIn(r, running) }
                 : r \in { q \in BagToSet(running) : q.worker_tx = w } }
    \cup { [drift_id |-> queues[w][i].drift_id, op |-> queues[w][i].result.result.data,
            place |-> "queue", idx |-> i]
             : i \in { j \in 1 .. Len(queues[w]) : queues[w][j].kind = "Resume" } }

\* C35: on one worker no two outstanding async ops carry the same drift_id,
\* and drift_to_request maps the drift_id of every outstanding op to the
\* request that issued the op.
C35_OutstandingDriftIdsUnique ==
    \A w \in Workers :
        /\ \A a, b \in OutstandingOps(w) : a # b => a.drift_id # b.drift_id
        /\ \A a \in OutstandingOps(w) :
              /\ MapHas(rt[w].drift_to_request, a.drift_id)
              /\ LET req_id == rt[w].drift_to_request[a.drift_id]
                 IN  /\ MapHas(rt[w].active_requests, req_id)
                     /\ rt[w].active_requests[req_id].origin = a.op.origin

\* The error message for an action that is not loaded.
ActionNotFound(name) == "Action '" \o name \o "' not found"

\* C36: a request dispatched for an action that the worker has not loaded is
\* answered with {error: "Action '<name>' not found"}, which handler turns
\* into a 500; after its execution it is not in pending_requests; and no
\* request for such an action is ever in active_requests.
C36_MissingActionAnswered ==
    /\ (lastExec.origin # 0 /\ lastExec.action_name \notin LoadedActions) =>
          LET o == lastExec.origin
              r == rt[lastExec.worker]
          IN  /\ ~MapHas(r.pending_requests, lastExec.request_id)
              /\ ~MapHas(r.active_requests, lastExec.request_id)
              /\ \/ oneshot[o] = Some([json |-> [error |-> ActionNotFound(lastExec.action_name)],
                                       timings |-> << >>])
                 \/ http[o].pc = "done"
              /\ lastResponse.h = o =>
                    ErrorResponse(lastResponse.resp, ActionNotFound(lastExec.action_name))
    /\ \A w \in Workers : \A id \in DOMAIN rt[w].active_requests :
          rt[w].active_requests[id].action_name \in LoadedActions

\* The request for the action that is not loaded has been answered.
C36_Witness ==
    /\ lastExec.origin # 0
    /\ lastExec.action_name = "ghost"
    /\ lastResponse.h = lastExec.origin
    /\ lastResponse.resp.status = 500

\* C37: over all executions, replays, repeated _finish_request calls and
\* action errors of a request, at most one WorkerResult is sent on its
\* response_tx, and once one was sent the request is not pending on a worker.
C37_AtMostOneResult ==
    \A h \in HttpIds :
        /\ hist[h].results <= 1
        /\ hist[h].results = 1 =>
              \A w \in Workers : \A id \in DOMAIN rt[w].pending_requests :
                  rt[w].pending_requests[id] # h

\* An action that calls _finish_request two times after a replay, or that
\* throws after _finish_request, has run to its end.
C37_Witness ==
    /\ lastExec.origin # 0
    /\ lastExec.action_name \in {"twice", "late"}
    /\ ~lastExec.suspended
    /\ hist[lastExec.origin].results = 1

\* C38: a _drift_call whose try_send on the executor channel fails returns
\* null and throws nothing, and no Resume with its drift_id is enqueued on the
\* worker's queue.  (try_send never blocks: every execution runs to its end.)
C38_RejectedDriftNoResume ==
    lastExec.origin # 0 =>
        \A i \in 1 .. Len(lastExec.log.refused) :
            LET call == lastExec.log.refused[i]
            IN  /\ call.ret = Null
                /\ call.thrown = "none"
                /\ \A k \in 1 .. Len(queues[lastExec.worker]) :
                      queues[lastExec.worker][k].kind = "Resume" =>
                          queues[lastExec.worker][k].drift_id # call.id


\* C39: for a result whose _isResponse flag is true, the JSON _finish_request
\* delivers has no key besides _isResponse, status, body and headers; a
\* delivered body is a string, the script's own string when the script gave
\* one; every other top-level key of the result, redirect included, is absent.
C39_ResponseFieldsOnly ==
    (/\ probe.kind = "finish"
     /\ probe.done
     /\ "_isResponse" \in DOMAIN probe.result
     /\ probe.result._isResponse = TRUE) =>
        /\ DOMAIN probe.json \subseteq {"_isResponse", "status", "body", "headers"}
        /\ "body" \in DOMAIN probe.json => is_string(probe.json.body)
        /\ ("body" \in DOMAIN probe.result /\ is_string(probe.result.body)) =>
              /\ "body" \in DOMAIN probe.json
              /\ probe.json.body = probe.result.body
        /\ \A k \in DOMAIN probe.result :
              k \notin {"_isResponse", "status", "body", "headers"} =>
                  k \notin DOMAIN probe.json

\* C39: a response object with a string body, a redirect and an error key
\* has been through _finish_request.
C39_Witness ==
    /\ probe.kind = "finish"
    /\ probe.done
    /\ {"_isResponse", "body", "redirect", "error"} \subseteq DOMAIN probe.result
    /\ probe.result._isResponse = TRUE
    /\ probe.result.body = Body("{ok:true}", << >>)
    /\ "body" \in DOMAIN probe.json


\* C40: once an execution has ended a request (the action returned, threw an
\* ordinary exception or was not found), the worker holds no entry for the
\* request's id in pending_requests, active_requests, request_start_counters
\* and request_timings; and every id with an entry in request_timings is the
\* id of a pending request.
C40_TerminatedRequestForgotten ==
    /\ (lastExec.origin # 0 /\ ~contains_SUSPEND(lastExec.thrown)) =>
          LET r == rt[lastExec.worker]
              id == lastExec.request_id
          IN  /\ ~MapHas(r.pending_requests, id)
              /\ ~MapHas(r.active_requests, id)
              /\ ~MapHas(r.request_start_counters, id)
              /\ ~MapHas(r.request_timings, id)
    /\ \A w \in Workers :
          DOMAIN rt[w].request_timings \subseteq DOMAIN rt[w].pending_requests

====
